---- MODULE Spec2Model ----
(***************************************************************************)
(* Verification model of the policy_reader application: the SAIBA          *)
(* auth/sync client (services/saiba_sync_service.py), the validation       *)
(* engine (services/saiba_validation_service.py) and the policy creation   *)
(* orchestrator (services/policy_creation_service.py).                     *)
(*                                                                         *)
(* Conventions: Python None is NULL for strings, NoTime for timestamps,    *)
(* <<>> for texts held as character sequences, {} / EmptyData for dicts.   *)
(* Time is counted in minutes.                                             *)
(***************************************************************************)
EXTENDS Integers, Sequences, FiniteSets, TLC

VARIABLES
    settings,       \* Policy Reader Settings: the SAIBA configuration fields
    motor_validation_rules,   \* SAIBA Validation Settings child table (Motor)
    health_validation_rules,  \* SAIBA Validation Settings child table (Health)
    validation_enabled,       \* SAIBA Validation Settings.enabled
    tx,             \* database as seen by the running request (uncommitted writes included)
    db,             \* committed database content
    now,            \* wall clock, minutes
    ticks,          \* number of clock advances so far
    pc,             \* position of the sync invocation
    cur,            \* doctype of the policy being synced
    payload,        \* request payload of the invocation (set of keys)
    bearer,         \* token in the Authorization header of the POST in flight
    http_log,       \* HTTP requests issued by the invocation, with their outcome
    http_response,  \* the response _make_api_request returned to the invocation
    result,         \* value returned by the invocation
    policy_fields,  \* field values of the policy record that is validated
    report,         \* value returned by the latest validate_*_policy call
    pending_edit,   \* field of the record edited since that call ("none" if none)
    last_edit,      \* while no edit is pending: the field edited between the previous
                    \* call and the latest one ("none" if none)
    was_ready,      \* while no edit is pending: the previous call reported ready_to_sync
    field_mappings, \* Policy Reader Settings: is a field mapping stored for the policy type
    create_tx,      \* Policy Document and created policies as the running request sees them
    create_db,      \* Policy Document and created policies, committed
    create_call,    \* the latest policy creation call and how it ended
    settings_save,  \* the latest save of SAIBA Validation Settings and how it ended
    alias_maps,     \* Policy Reader Settings: motor_policy_fields / health_policy_fields,
                    \* the alias -> canonical field dict each holds as JSON
    alias_ops,      \* number of alias registry operations so far
    alias_call,     \* the latest alias registry operation and how it ended
    norm_input,     \* the value given to the key normalizer (a text or None)
    norm_history,   \* what the normalizer returned, applied to its own result in turn
    mapping_cache,  \* frappe.cache(): the values under field_mapping_motor / field_mapping_health
    resolve_call,   \* the latest lookup of a key in a cached field mapping and its result
    mapper_call,    \* the latest run of the field mapper: its arguments, the policy
                    \* record when it started and when it returned, and its result
    job_doc,        \* the Policy Document that is processed, as committed
    job_queue,      \* the process_policy_background jobs enqueued for that document
    job_clock,      \* wall clock of the job scheduler, in steps of five minutes
    job_call,       \* the latest call of a method of the Policy Document, or save of
                    \* its form, and how it ended ("none" once a job or the monitor ran)
    convert_call    \* the latest call of the value converter: its arguments and its result

syncVars == <<settings, tx, db, now, ticks, pc, cur, payload, bearer, http_log, http_response, result>>
ruleVars == <<motor_validation_rules, health_validation_rules, validation_enabled>>
validationVars == <<policy_fields, report, pending_edit, last_edit, was_ready>>
creationVars == <<field_mappings, create_tx, create_db, create_call>>
\* the variables of the parts below that sync, validation and creation leave alone
registryVars == <<alias_maps, alias_ops, alias_call>>
normVars == <<norm_input, norm_history>>
resolveVars == <<mapping_cache, resolve_call>>
mapperVars == <<mapper_call>>
jobVars == <<job_doc, job_queue, job_clock, job_call>>
convertVars == <<convert_call>>
otherVars == <<settings_save, registryVars, normVars, resolveVars, mapperVars, jobVars, convertVars>>
nonSyncVars == <<ruleVars, validationVars, creationVars, otherVars>>
vars == <<syncVars, ruleVars, validationVars, creationVars, otherVars>>

\* ---------------------------------------------------------------- bounds
MaxTicks == 1

\* ------------------------------------------------------------- sentinels
NULL == "<None>"
NoTime == 0 - 1
NoDoc == [exists |-> FALSE]

\* Python values a field of a policy record can hold: None, a str (s, its
\* characters), an int (n) or a datetime.date (s, its ISO text)
PyNone == [py |-> "NoneType", s |-> <<>>, n |-> 0]
PyText(chars) == [py |-> "str", s |-> chars, n |-> 0]
PyInt(i) == [py |-> "int", s |-> <<>>, n |-> i]

\* the fields of the policy record that the validation rules of the model read
Fields == {"policy_no", "policy_start_date"}

NoSummary == [total_required |-> 0, valid |-> 0, invalid |-> 0, ready_to_sync |-> FALSE]
NoReport == [success |-> FALSE, error |-> NULL, policy_type |-> NULL,
             summary |-> NoSummary, categories |-> <<>>]

\* The Policy Document of the model, as uploaded: nothing extracted, no policy
\* type chosen, no policy linked (a link is the number of the linked policy, 0 for
\* none); and no Motor / Health Policy created from it.
NoPolicies == [policy_document |-> [extracted_fields |-> "", policy_type |-> NULL,
                                    extraction_policy_type |-> NULL,
                                    motor_policy |-> 0, health_policy |-> 0],
               motor |-> 0, health |-> 0]
NoCreateResult == [success |-> FALSE, error |-> NULL, policy_name |-> 0, policy_type |-> NULL]
NoCall == [op |-> "none", policy_document_name |-> NULL, policy_type |-> NULL,
           kind |-> "none", message |-> NULL, result |-> NoCreateResult]

\* no policy creation call has been made
CreationIdle ==
    /\ field_mappings = [motor |-> TRUE, health |-> TRUE]
    /\ create_tx = NoPolicies
    /\ create_db = NoPolicies
    /\ create_call = NoCall

\* nothing has happened in the parts below
\* a dict without keys
EmptyDict == [k \in {} |-> k]

\* the alias registry has never been written
RegistryIdle ==
    /\ alias_maps = [motor |-> EmptyDict, health |-> EmptyDict]
    /\ alias_ops = 0
    /\ alias_call = [op |-> "none", raised |-> FALSE]

\* no key has been normalized
NormalizerIdle ==
    /\ norm_input = PyNone
    /\ norm_history = <<>>

\* a cache entry that is absent or has expired
NoCacheValue == [set |-> FALSE, value |-> EmptyDict]

NoResolve == [op |-> "none", policy_type |-> "", key |-> <<>>, found |-> FALSE, field |-> <<>>]

\* nothing is cached and no key has been looked up
ResolveIdle ==
    /\ mapping_cache = [motor |-> NoCacheValue, health |-> NoCacheValue]
    /\ resolve_call = NoResolve

\* the field mapper has not run
MapperIdle ==
    mapper_call = [op |-> "none", parsed_data |-> <<>>, field_mapping |-> EmptyDict,
                   before |-> EmptyDict, after |-> EmptyDict,
                   mapped_count |-> 0, unmapped_fields |-> <<>>]

\* SAIBA Validation Settings has not been saved
SettingsSaveIdle ==
    settings_save = [op |-> "none", motor_validation_rules |-> <<>>,
                     health_validation_rules |-> <<>>, error |-> NULL]

\* jobs of one document that the model follows
MaxJobs == 2
\* steps of the job scheduler's clock the model tells apart (one step is five minutes)
MaxClock == 7

Jobs == 1..MaxJobs
NoJob == [state |-> "none", stale |-> FALSE]
NoJobCall == [op |-> "none", raised |-> FALSE, status |-> NULL]

\* a Policy Document in Draft with its file attached and its policy type set,
\* and no job enqueued for it
JobsIdle ==
    /\ job_doc = [status |-> "Draft", modified |-> 0, policy_file |-> TRUE,
                  policy_type |-> "Motor", extraction_policy_type |-> NULL,
                  extracted_fields |-> 0, error_message |-> NULL]
    /\ job_queue = [j \in Jobs |-> NoJob]
    /\ job_clock = 0
    /\ job_call = NoJobCall

\* the value converter has not been called
ConverterIdle ==
    convert_call = [op |-> "none", field_name |-> <<>>, value |-> PyNone, result |-> PyNone]

OthersIdle ==
    /\ SettingsSaveIdle
    /\ RegistryIdle
    /\ NormalizerIdle
    /\ ResolveIdle
    /\ MapperIdle
    /\ JobsIdle
    /\ ConverterIdle

\* no validation call has been made
ValidationIdle ==
    /\ policy_fields = [f \in Fields |-> PyNone]
    /\ report = NoReport
    /\ pending_edit = "none"
    /\ last_edit = "none"
    /\ was_ready = FALSE
Doctypes == {"Motor Policy", "Health Policy"}

\* ------------------------------------------------- program constants
TOKEN_VALIDITY_HOURS == 23
TokenBufferMinutes == 5
MinutesPerHour == 60

\* ------------------------------------------------------------- texts
\* Texts that the code searches are sequences of one-character strings.
UpperLetters == <<"A","B","C","D","E","F","G","H","I","J","K","L","M",
                  "N","O","P","Q","R","S","T","U","V","W","X","Y","Z">>
LowerLetters == <<"a","b","c","d","e","f","g","h","i","j","k","l","m",
                  "n","o","p","q","r","s","t","u","v","w","x","y","z">>

\* str.lower() of one character (re.IGNORECASE compares case-folded)
LowerChar(c) ==
    IF \E i \in 1..Len(UpperLetters) : UpperLetters[i] = c
    THEN LowerLetters[CHOOSE i \in 1..Len(UpperLetters) : UpperLetters[i] = c]
    ELSE c

IsSpace(c) == c \in {" ", "\t", "\n", "\r"}
IsDigit(c) == c \in {"0","1","2","3","4","5","6","7","8","9"}

\* the literal part of the pattern r'Control No\s*:\s*(\d+)'
ControlNoLiteral == <<"c", "o", "n", "t", "r", "o", "l", " ", "n", "o">>

\* first index >= j of text that is not whitespace (Len(text)+1 if none): \s*
SkipSpaces(text, j) ==
    CHOOSE k \in j..(Len(text) + 1) :
        /\ \A m \in j..(k - 1) : IsSpace(text[m])
        /\ (k = Len(text) + 1 \/ ~IsSpace(text[k]))

\* first index >= j of text that is not a digit (Len(text)+1 if none): \d+ is greedy
SkipDigits(text, j) ==
    CHOOSE k \in j..(Len(text) + 1) :
        /\ \A m \in j..(k - 1) : IsDigit(text[m])
        /\ (k = Len(text) + 1 \/ ~IsDigit(text[k]))

\* position of the colon if the whole pattern matches starting at i, else 0
ColonAt(text, i) == SkipSpaces(text, i + Len(ControlNoLiteral))

\* does the pattern match at position i: the literal (ignoring case), \s*, ':',
\* \s* and a digit
PatternAt(text, i) ==
    /\ i + Len(ControlNoLiteral) - 1 <= Len(text)
    /\ \A m \in 1..Len(ControlNoLiteral) : LowerChar(text[i + m - 1]) = ControlNoLiteral[m]
    /\ ColonAt(text, i) <= Len(text)
    /\ text[ColonAt(text, i)] = ":"
    /\ SkipSpaces(text, ColonAt(text, i) + 1) <= Len(text)
    /\ IsDigit(text[SkipSpaces(text, ColonAt(text, i) + 1)])

\* mutant of _parse_control_number: the group is (\d) instead of (\d+)
_parse_control_number_one_digit(result_text) ==
    IF result_text = <<>> THEN <<>>
    ELSE IF \E i \in 1..Len(result_text) : PatternAt(result_text, i)
    THEN LET i == CHOOSE i \in 1..Len(result_text) :
                      /\ PatternAt(result_text, i)
                      /\ \A j \in 1..(i - 1) : ~PatternAt(result_text, j)
             d == SkipSpaces(result_text, ColonAt(result_text, i) + 1)
         IN  SubSeq(result_text, d, d)
    ELSE <<>>

\* re.search(...).group(1): the digits of the leftmost match
_parse_control_number(result_text) ==
    IF result_text = <<>> THEN <<>>
    ELSE IF \E i \in 1..Len(result_text) : PatternAt(result_text, i)
    THEN LET i == CHOOSE i \in 1..Len(result_text) :
                      /\ PatternAt(result_text, i)
                      /\ \A j \in 1..(i - 1) : ~PatternAt(result_text, j)
             d == SkipSpaces(result_text, ColonAt(result_text, i) + 1)
         IN  SubSeq(result_text, d, SkipDigits(result_text, d) - 1)
    ELSE <<>>

\* the result message 'Successfully Saved with Control No : 398254'
ResultSaved398254 == <<"S", "u", "c", "c", "e", "s", "s", "f", "u", "l", "l", "y", " ", "S", "a", "v", "e", "d", " ", "w", "i", "t", "h", " ", "C", "o", "n", "t", "r", "o", "l", " ", "N", "o", " ", ":", " ", "3", "9", "8", "2", "5", "4">>

\* ------------------------------------------------------ SAIBA responses
\* A JSON object body as the dict response.json() returns; a missing key is
\* NULL (<<>> for the result text, 0 for status_code).
EmptyData == [status |-> NULL, result |-> <<>>, error |-> NULL,
              validations |-> NULL, message |-> NULL, status_code |-> 0]

\* bool(dict): an empty dict is falsy
DataTruthy(data) == data # EmptyData

\* Response bodies: "object" (a JSON object), "nonobject" (valid JSON that is
\* no object, such as a list) and "text" (not JSON at all).
BodySuccess398254 == [json |-> "object", text |-> NULL,
    data |-> [EmptyData EXCEPT !.status = "Success", !.result = ResultSaved398254]]
BodyEmptyObject == [json |-> "object", text |-> NULL, data |-> EmptyData]

\* the bodies of the model: a success with and without a control number, a
\* rejection with validations, {}, a JSON value that is no object, and text
\* that is no JSON
Bodies ==
    { BodySuccess398254,
      [json |-> "object", text |-> NULL,
       data |-> [EmptyData EXCEPT !.status = "Success",
                                  !.result = <<"S", "a", "v", "e", "d">>]],
      [json |-> "object", text |-> NULL,
       data |-> [EmptyData EXCEPT !.status = "Failed",
                                  !.validations = "policyNo is required"]],
      BodyEmptyObject,
      [json |-> "nonobject", text |-> NULL, data |-> EmptyData],
      [json |-> "text", text |-> "Bad Gateway", data |-> EmptyData] }

\* what requests.post(policy endpoint) can do: answer, time out, fail to connect
PostOutcomes ==
    [kind : {"response"}, code : {200, 401, 403, 500}, body : Bodies]
    \cup {[kind |-> k, code |-> 0, body |-> BodyEmptyObject] : k \in {"timeout", "connection_error"}}

\* what requests.post(token endpoint) can do
TokenOutcomes ==
    [kind : {"token"}, token : {"tok-A", "tok-B"}]
    \cup {[kind |-> k, token |-> NULL] :
            k \in {"no_token", "http_error", "timeout", "connection_error"}}

\* ------------------------------------------------------- policy records
\* The SAIBA sync fields of a Motor Policy / Health Policy document.
NewPolicy == [saiba_sync_status |-> "Not Synced", saiba_sync_datetime |-> NoTime,
              saiba_control_number |-> <<>>, saiba_sync_error |-> NULL,
              saiba_sync_response |-> [request |-> {}, response |-> EmptyData]]

\* ----------------------------------------------------- validation rules
Rule(saiba_field, doctype_field, category, validation_type, is_required) ==
    [saiba_field |-> saiba_field, doctype_field |-> doctype_field,
     label |-> saiba_field, category |-> category,
     validation_type |-> validation_type, is_required |-> is_required]

RangeOf(seq) == {seq[i] : i \in 1..Len(seq)}

\* ------------------------------------------------------------- payloads
\* The keys of the payload dict; the values play no part in the sync protocol.
_build_motor_policy_payload ==
    {"custCode", "posPolicy", "bizType", "insBranchCode", "issuenceDate", "busBrokDate",
     "startDate", "expiryDate", "policyReceivedDate", "policyReceivedFormat", "policyType",
     "department", "coverageType", "policyVertical", "policyNo", "isRenewable", "newRenewal",
     "prevPolicy", "vehicleNo", "make", "model", "variant", "registrationDate",
     "typeofVehicle", "yearOfMan", "chasisNo", "engineNo", "cc", "seat", "fuel", "rtoCode",
     "ncb", "odd", "vehicleCategory", "passengerGVW", "gvw", "noOfPassenger", "sumInsured",
     "netODPremium", "premRate", "tpPremium", "lpodPremium", "coverangeOrTP", "gst",
     "stampDuty", "paymentMode", "bankName", "paymentTranNo", "campaignName", "remarks",
     "policyStatus"}

_build_health_policy_payload ==
    {"custCode", "posPolicy", "bizType", "insBranchCode", "issuenceDate", "startDate",
     "expiryDate", "policyType", "policyNo", "planName", "isRenewable", "coverageType",
     "policyVertical", "prevPolicy", "sumInsured", "netODPremium", "gst", "stampDuty",
     "paymentMode", "bankName", "paymentTranNo", "campaignName", "remarks", "policyStatus"}
    \cup {"insured1Name", "insured1Gender", "insured1DOB", "insured1Relation",
          "insured2Name", "insured2Gender", "insured2DOB", "insured2Relation",
          "insured3Name", "insured3Gender", "insured3DOB", "insured3Relation",
          "insured4Name", "insured4Gender", "insured4DOB", "insured4Relation",
          "insured5Name", "insured5Gender", "insured5DOB", "insured5Relation"}

\* {r.saiba_field for r in rules if r.is_required}
_get_required_saiba_fields(dt, motorRules, healthRules) ==
    LET rules == IF dt = "Motor Policy" THEN motorRules ELSE healthRules
    IN  {r.saiba_field : r \in {x \in RangeOf(rules) : x.is_required}}

_filter_required_only(pl, dt, st, motorRules, healthRules) ==
    IF ~st.saiba_sync_required_only THEN pl
    ELSE LET required_fields == _get_required_saiba_fields(dt, motorRules, healthRules)
         IN  IF required_fields = {} THEN pl
             ELSE {k \in pl : k \in required_fields}

\* ------------------------------------------------------------- database
\* A store S is [tx, db]: tx is what the request sees, db what is committed.
\* Both are [docs, saiba_token, saiba_token_expiry].
db_commit(S) == [S EXCEPT !.db = S.tx]

NoResponse == [kind |-> "none", code |-> 0, body |-> BodyEmptyObject]
NoResult == [success |-> FALSE, control_number |-> <<>>, message |-> <<>>, error |-> NULL]
Failure(msg) == [NoResult EXCEPT !.error = msg]

_is_enabled(st) == st.saiba_enabled

\* mutant of _is_token_valid: the 5 minute buffer is forgotten
_is_token_valid_no_buffer(view, t) ==
    IF view.saiba_token = NULL \/ view.saiba_token_expiry = NoTime
    THEN FALSE
    ELSE view.saiba_token_expiry > t

\* expiry > datetime.now() + timedelta(minutes=5)
_is_token_valid(view, t) ==
    IF view.saiba_token = NULL \/ view.saiba_token_expiry = NoTime
    THEN FALSE
    ELSE view.saiba_token_expiry > t + TokenBufferMinutes

\* set_value(token, now + 23h); commit
_cache_token(S, token, t) ==
    db_commit([S EXCEPT !.tx.saiba_token = token,
                        !.tx.saiba_token_expiry = t + TOKEN_VALIDITY_HOURS * MinutesPerHour])

\* the 401/403 branch: set_value(token None, expiry None); commit
ClearToken(S) ==
    db_commit([S EXCEPT !.tx.saiba_token = NULL, !.tx.saiba_token_expiry = NoTime])

\* mutant of _update_sync_status: set_value without the commit
_update_sync_status_no_commit(S, dt, status, error, control_number, response, request_payload, t) ==
    LET old == S.tx.docs[dt]
        new == [saiba_sync_status |-> status,
                saiba_sync_datetime |-> t,
                saiba_sync_error |-> error,
                saiba_control_number |->
                    IF control_number # <<>> THEN control_number
                    ELSE old.saiba_control_number,
                saiba_sync_response |->
                    IF DataTruthy(response) \/ request_payload # {}
                    THEN [request |-> request_payload, response |-> response]
                    ELSE old.saiba_sync_response]
    IN  [S EXCEPT !.tx.docs[dt] = new]

\* set_value(doctype, docname, update_data); commit.  error NULL, control_number <<>>,
\* response EmptyData and request_payload {} are the falsy arguments.
_update_sync_status(S, dt, status, error, control_number, response, request_payload, t) ==
    LET old == S.tx.docs[dt]
        new == [saiba_sync_status |-> status,
                saiba_sync_datetime |-> t,
                saiba_sync_error |-> error,
                saiba_control_number |->
                    IF control_number # <<>> THEN control_number
                    ELSE old.saiba_control_number,
                saiba_sync_response |->
                    IF DataTruthy(response) \/ request_payload # {}
                    THEN [request |-> request_payload, response |-> response]
                    ELSE old.saiba_sync_response]
    IN  db_commit([S EXCEPT !.tx.docs[dt] = new])

Truthy(s) == s # NULL /\ s # ""

\* response.json(), or {"error": response.text, "status_code": ...} when it raises
ResponseData(resp) ==
    IF resp.body.json = "text"
    THEN [EmptyData EXCEPT !.error = resp.body.text, !.status_code = resp.code]
    ELSE resp.body.data

\* data.get("error") or data.get("validations") or data.get("message") or f"HTTP {code}"
ErrorMessage(data, code) ==
    IF Truthy(data.error) THEN data.error
    ELSE IF Truthy(data.validations) THEN data.validations
    ELSE IF Truthy(data.message) THEN data.message
    ELSE "HTTP " \o ToString(code)

\* Returns [raised, msg, S, result]; data.get on a JSON value that is no object
\* raises AttributeError out of the function.
_handle_api_response(S, resp, dt, request_payload, t) ==
    LET data == ResponseData(resp)
    IN  IF resp.body.json = "nonobject"
        THEN [raised |-> TRUE, msg |-> "'list' object has no attribute 'get'",
              S |-> S, result |-> NoResult]
        ELSE IF resp.code = 200 /\ data.status = "Success"
        THEN LET control_no == _parse_control_number(data.result)
             IN  [raised |-> FALSE, msg |-> NULL,
                  S |-> _update_sync_status(S, dt, "Synced", NULL, control_no, data,
                                            request_payload, t),
                  result |-> [success |-> TRUE, control_number |-> control_no,
                              message |-> data.result, error |-> NULL]]
        ELSE LET error_msg == ErrorMessage(data, resp.code)
             IN  [raised |-> FALSE, msg |-> NULL,
                  S |-> _update_sync_status(S, dt, "Failed", error_msg, <<>>, data,
                                            request_payload, t),
                  result |-> Failure(error_msg)]

\* mutant of SyncExcept: the except branch only logs and returns the error
SyncExcept_no_status(S, dt, msg, request_payload, t) ==
    [S |-> S, result |-> Failure(msg)]

\* the except branch of sync_motor_policy / sync_health_policy
SyncExcept(S, dt, msg, request_payload, t) ==
    IF S.tx.docs[dt] = NoDoc
    THEN [S |-> S, result |-> Failure(msg)]
    ELSE [S |-> _update_sync_status(S, dt, "Failed", msg, <<>>, EmptyData, request_payload, t),
          result |-> Failure(msg)]

\* the frappe.throw calls of _refresh_token that precede the token request
RefreshPrecondition(st) ==
    IF ~_is_enabled(st) THEN "SAIBA integration is not enabled"
    ELSE IF st.saiba_base_url = "" THEN "SAIBA base URL is not configured"
    ELSE IF ~st.saiba_credentials THEN "SAIBA credentials are not configured"
    ELSE NULL

\* the message _refresh_token throws for a failed token request; _make_api_request
\* raises the same two texts for a policy request that times out or cannot connect
TokenErrorText(kind) ==
    CASE kind = "timeout" -> "SAIBA API request timed out"
      [] kind = "connection_error" -> "Could not connect to SAIBA API"
      [] kind = "no_token" -> "Failed to refresh token: No token in response"
      [] OTHER -> "Failed to refresh token: Token request failed"

\* ------------------------------------------------------ sync invocation
InFlight == {"token1", "post1", "reauth", "post2"}

\* a log entry: the endpoint, the token the request carried (policy) or was answered
\* with (token), and how the request ended
LogRequest(log, to, token) == Append(log, [to |-> to, token |-> token, outcome |-> "inflight"])
LogOutcome(log, outcome) == [log EXCEPT ![Len(log)].outcome = outcome]

\* the invocation returns res, leaving the store S
Finish(S, res, log) ==
    /\ tx' = S.tx
    /\ db' = S.db
    /\ result' = res
    /\ http_log' = log
    /\ pc' = "returned"
    /\ bearer' = NULL

\* an exception reaches the except branch of sync_*_policy
Fail(S, dt, msg, pl, log) ==
    LET h == SyncExcept(S, dt, msg, pl, now)
    IN  Finish(h.S, h.result, log)

\* requests.post(url, json=payload, headers={"Authorization": Bearer token})
SendPost(S, dt, pl, token, nextpc, log) ==
    IF settings.saiba_base_url = ""
    THEN Fail(S, dt, "Invalid URL: No scheme supplied", pl, log)
    ELSE /\ tx' = S.tx
         /\ db' = S.db
         /\ pc' = nextpc
         /\ bearer' = token
         /\ http_log' = LogRequest(log, "policy", token)
         /\ result' = NoResult

\* _refresh_token up to its requests.post(token endpoint)
RequestToken(S, dt, pl, nextpc, log) ==
    IF RefreshPrecondition(settings) # NULL
    THEN Fail(S, dt, RefreshPrecondition(settings), pl, log)
    ELSE /\ tx' = S.tx
         /\ db' = S.db
         /\ pc' = nextpc
         /\ bearer' = NULL
         /\ http_log' = LogRequest(log, "token", NULL)
         /\ result' = NoResult

\* sync_motor_policy / sync_health_policy up to the first HTTP request
StartSync(dt) ==
    /\ pc = "idle"
    /\ UNCHANGED nonSyncVars
    /\ cur' = dt
    /\ UNCHANGED <<settings, now, ticks, http_response>>
    /\ IF ~_is_enabled(settings)
       THEN /\ payload' = {}
            /\ Finish([tx |-> tx, db |-> db],
                      Failure("SAIBA integration is not enabled"), <<>>)
       ELSE IF tx.docs[dt] = NoDoc
       THEN /\ payload' = {}
            /\ Fail([tx |-> tx, db |-> db], dt, "Policy not found", {}, <<>>)
       ELSE LET S1 == _update_sync_status([tx |-> tx, db |-> db], dt, "Pending",
                                          NULL, <<>>, EmptyData, {}, now)
                built == IF dt = "Motor Policy" THEN _build_motor_policy_payload
                         ELSE _build_health_policy_payload
                pl == _filter_required_only(built, dt, settings,
                                            motor_validation_rules, health_validation_rules)
            IN  /\ payload' = pl
                /\ IF _is_token_valid(S1.tx, now)
                   THEN SendPost(S1, dt, pl, S1.tx.saiba_token, "post1", <<>>)
                   ELSE RequestToken(S1, dt, pl, "token1", <<>>)

\* the token endpoint answers (or the request fails)
TokenResponse(o) ==
    /\ pc \in {"token1", "reauth"}
    /\ UNCHANGED nonSyncVars
    /\ UNCHANGED <<settings, now, ticks, cur, payload, http_response>>
    /\ LET log == [LogOutcome(http_log, o.kind) EXCEPT ![Len(http_log)].token = o.token]
           S == [tx |-> tx, db |-> db]
       IN  IF o.kind = "token"
           THEN SendPost(_cache_token(S, o.token, now), cur, payload, o.token,
                         IF pc = "token1" THEN "post1" ELSE "post2", log)
           ELSE Fail(S, cur, TokenErrorText(o.kind), payload, log)

\* mutant of RetryAfterRefresh: every 401/403 is retried, the retry's too
RetryAfterRefresh_every_time(position, o) == o.code \in {401, 403}

\* is this response retried after a token refresh
RetryAfterRefresh(position, o) == position = "post1" /\ o.code \in {401, 403}

\* the policy endpoint answers (or the request fails)
PostResponse(o) ==
    /\ pc \in {"post1", "post2"}
    /\ UNCHANGED nonSyncVars
    /\ http_response' = IF o.kind = "response" /\ ~RetryAfterRefresh(pc, o) THEN o ELSE NoResponse
    /\ UNCHANGED <<settings, now, ticks, cur, payload>>
    /\ LET S == [tx |-> tx, db |-> db]
       IN  IF o.kind # "response"
           THEN Fail(S, cur, TokenErrorText(o.kind), payload, LogOutcome(http_log, o.kind))
           ELSE IF RetryAfterRefresh(pc, o)
           THEN RequestToken(ClearToken(S), cur, payload, "reauth",
                             LogOutcome(http_log, ToString(o.code)))
           ELSE LET h == _handle_api_response(S, o, cur, payload, now)
                    log == LogOutcome(http_log, ToString(o.code))
                IN  IF h.raised
                    THEN Fail(S, cur, h.msg, payload, log)
                    ELSE Finish(h.S, h.result, log)

\* the worker process dies while an HTTP request is in flight: uncommitted writes are lost
Crash ==
    /\ pc \in InFlight
    /\ UNCHANGED nonSyncVars
    /\ pc' = "idle"
    /\ tx' = db
    /\ bearer' = NULL
    /\ result' = NoResult
    /\ cur' = "Motor Policy"
    /\ payload' = {}
    /\ http_log' = <<>>
    /\ http_response' = NoResponse
    /\ UNCHANGED <<settings, db, now, ticks>>

\* the request that ran the invocation ends; its service instance is discarded
Complete ==
    /\ pc = "returned"
    /\ UNCHANGED nonSyncVars
    /\ pc' = "idle"
    /\ result' = NoResult
    /\ cur' = "Motor Policy"
    /\ payload' = {}
    /\ http_log' = <<>>
    /\ http_response' = NoResponse
    /\ UNCHANGED <<settings, tx, db, now, ticks, bearer>>

\* time passes between requests
Tick(d) ==
    /\ pc = "idle"
    /\ UNCHANGED nonSyncVars
    /\ ticks < MaxTicks
    /\ now' = now + d
    /\ ticks' = ticks + 1
    /\ UNCHANGED <<settings, tx, db, pc, cur, payload, bearer, http_log, http_response, result>>

\* ------------------------------------------------------- configurations
SettingsNormal == [saiba_enabled |-> TRUE, saiba_base_url |-> "https://saiba.example",
                   saiba_credentials |-> TRUE, saiba_sync_required_only |-> FALSE]

SyncSettings ==
    { SettingsNormal,
      [SettingsNormal EXCEPT !.saiba_enabled = FALSE],
      [SettingsNormal EXCEPT !.saiba_credentials = FALSE],
      [SettingsNormal EXCEPT !.saiba_base_url = ""],
      [SettingsNormal EXCEPT !.saiba_sync_required_only = TRUE] }

RulesPayloadFields ==
    << Rule("policyNo", "policy_no", "Policy Information", "string", TRUE),
       Rule("custCode", "customer_code", "Customer & Insurer", "integer_nonzero", TRUE),
       Rule("remarks", "remarks", "Policy Information", "string", FALSE) >>

\* rule tables of the sync: the one above, and one whose required field is no
\* key of a payload
SyncRuleSets ==
    { RulesPayloadFields,
      << Rule("controlRef", "control_ref", "Policy Information", "string", TRUE) >> }

\* the token cache as earlier requests may have left it: empty, or a token that
\* expires in exactly 5 minutes, or in 6
InitialTokens ==
    {<<NULL, NoTime>>, <<"tok-0", TokenBufferMinutes>>, <<"tok-0", TokenBufferMinutes + 1>>}

InitSync ==
    /\ settings \in SyncSettings
    /\ \E rs \in SyncRuleSets :
          /\ motor_validation_rules = rs
          /\ health_validation_rules = rs
          /\ (settings.saiba_sync_required_only \/ rs = RulesPayloadFields)
    /\ validation_enabled = TRUE
    /\ ValidationIdle
    /\ CreationIdle
    /\ OthersIdle
    /\ \E dt \in Doctypes, tk \in InitialTokens :
          tx = [docs |-> [d \in Doctypes |-> IF d = dt THEN NewPolicy ELSE NoDoc],
                saiba_token |-> tk[1], saiba_token_expiry |-> tk[2]]
    /\ db = tx
    /\ now = 0
    /\ ticks = 0
    /\ pc = "idle"
    /\ cur = "Motor Policy"
    /\ payload = {}
    /\ bearer = NULL
    /\ http_log = <<>>
    /\ http_response = NoResponse
    /\ result = NoResult

NextSync ==
    \/ \E dt \in Doctypes : StartSync(dt)
    \/ \E o \in TokenOutcomes : TokenResponse(o)
    \/ \E o \in PostOutcomes : PostResponse(o)
    \/ Crash
    \/ Complete
    \/ \E d \in {1, TOKEN_VALIDITY_HOURS * MinutesPerHour - TokenBufferMinutes} : Tick(d)

SpecSync == InitSync /\ [][NextSync]_vars

\* ======================================================= claims C1 - C7
PolicyRequests(log) == SelectSeq(log, LAMBDA e : e.to = "policy")
TokenRequests(log) == SelectSeq(log, LAMBDA e : e.to = "token")
\* index in the log of the first policy POST (0 if none was sent)
FirstPost(log) ==
    IF \E i \in 1..Len(log) : log[i].to = "policy"
    THEN CHOOSE i \in 1..Len(log) : log[i].to = "policy" /\ \A j \in 1..(i - 1) : log[j].to # "policy"
    ELSE 0
\* the requests sent after the first policy POST
AfterFirstPost(log) == IF FirstPost(log) = 0 THEN <<>> ELSE SubSeq(log, FirstPost(log) + 1, Len(log))
FirstPostRejected(log) == FirstPost(log) # 0 /\ log[FirstPost(log)].outcome \in {"401", "403"}
\* the invocation got past its enabled check and found its policy document
SyncRan == pc = "returned" /\ _is_enabled(settings) /\ tx.docs[cur] # NoDoc
Digits398254 == <<"3", "9", "8", "2", "5", "4">>

\* C1: a sync invocation on an existing policy with SAIBA enabled first sets the
\* status to Pending (every HTTP request of the invocation is made with the status
\* Pending), and whenever it returns - after a timeout, a connection failure or a
\* failed token acquisition too - the status is Synced or Failed, never Pending.
C1_PendingThenSyncedOrFailed ==
    /\ [](SyncRan => tx.docs[cur].saiba_sync_status \in {"Synced", "Failed"})
    /\ [][(pc = "idle" /\ pc' \in InFlight) =>
            tx'.docs[cur'].saiba_sync_status = "Pending"]_vars

\* C1 witness: an invocation on a policy that was Synced before timed out on its
\* POST and returned with the status Failed.
C1_Witness ==
    /\ SyncRan
    /\ tx.docs[cur].saiba_sync_status = "Failed"
    /\ tx.docs[cur].saiba_sync_error = "SAIBA API request timed out"
    /\ tx.docs[cur].saiba_control_number = Digits398254

\* C2 as stated: once the first policy POST of an invocation was answered 401/403,
\* the invocation makes exactly one re-authentication and exactly one retry of
\* the POST.
C2_Original ==
    (pc = "returned" /\ FirstPostRejected(http_log)) =>
        /\ Len(TokenRequests(AfterFirstPost(http_log))) = 1
        /\ Len(PolicyRequests(http_log)) = 2

\* C2 amended: a 401/403 answer to the first policy POST clears the cached token
\* and leads to at most one re-authentication request (exactly one when the token
\* request can be made); the POST is retried exactly once if and only if that
\* re-authentication obtained a token, and otherwise the invocation ends Failed
\* with the token left cleared. Whatever the retry is answered, the invocation
\* returns, Failed unless the answer is a 200 Success; at most two policy POSTs are
\* sent per invocation, and a second one only after a 401/403 and a token refresh.
C2_RetryOnceAfterRefresh ==
    LET posts == PolicyRequests(http_log)
        after == AfterFirstPost(http_log)
        reauth == TokenRequests(after)
    IN  /\ Len(posts) <= 2
        /\ Len(reauth) <= 1
        /\ Len(posts) = 2 =>
              /\ FirstPostRejected(http_log)
              /\ Len(after) = 2
              /\ after[1].to = "token" /\ after[1].outcome = "token"
              /\ after[2].to = "policy" /\ after[2].token = after[1].token
        /\ pc = "reauth" => tx.saiba_token = NULL /\ db.saiba_token = NULL
        /\ (pc = "returned" /\ FirstPostRejected(http_log)) =>
              /\ Len(reauth) = 1 <=> RefreshPrecondition(settings) = NULL
              /\ Len(posts) = 2 <=> (Len(reauth) = 1 /\ reauth[1].outcome = "token")
              /\ Len(posts) = 1 =>
                    /\ tx.saiba_token = NULL
                    /\ tx.docs[cur].saiba_sync_status = "Failed"
        /\ (pc = "returned" /\ Len(posts) = 2 /\ posts[2].outcome # "200") =>
              tx.docs[cur].saiba_sync_status = "Failed"
        /\ (pc = "returned" /\ Len(posts) >= 1 /\ ~FirstPostRejected(http_log)) =>
              Len(posts) = 1 /\ Len(reauth) = 0

\* C2 witness: the retry was answered 401 again and the invocation ended Failed
\* after two policy POSTs.
C2_Witness ==
    /\ pc = "returned"
    /\ Len(PolicyRequests(http_log)) = 2
    /\ PolicyRequests(http_log)[2].outcome = "401"
    /\ tx.docs[cur].saiba_sync_status = "Failed"

\* C3: an invocation whose first POST is answered 401 and whose retry is answered
\* 200 with status "Success" and result "Successfully Saved with Control No :
\* 398254" ends Synced with the control number "398254" stored and returned.
C3_RetrySuccessStoresControlNumber ==
    ( /\ pc = "returned"
      /\ Len(PolicyRequests(http_log)) = 2
      /\ PolicyRequests(http_log)[1].outcome = "401"
      /\ http_response = [kind |-> "response", code |-> 200, body |-> BodySuccess398254] )
    => /\ db.docs[cur].saiba_sync_status = "Synced"
       /\ db.docs[cur].saiba_control_number = Digits398254
       /\ db.docs[cur].saiba_control_number # <<>>
       /\ result.success /\ result.control_number = Digits398254

\* C3 witness: such an invocation returned.
C3_Witness ==
    /\ pc = "returned"
    /\ Len(PolicyRequests(http_log)) = 2
    /\ PolicyRequests(http_log)[1].outcome = "401"
    /\ http_response = [kind |-> "response", code |-> 200, body |-> BodySuccess398254]
    /\ db.docs[cur].saiba_sync_status = "Synced"

\* the final HTTP response is a 200 whose JSON body has status "Success"
FinalResponseIsSuccess ==
    /\ http_response.code = 200
    /\ http_response.body.json = "object"
    /\ http_response.body.data.status = "Success"

\* C4 as stated: when an invocation returns after a final HTTP response, the record
\* is Synced if and only if that response is a 200 with status "Success", otherwise
\* it is Failed with an error text stored; and in both cases the request and the
\* response are stored on the record.
C4_Original ==
    (pc = "returned" /\ http_response.kind = "response") =>
        LET doc == db.docs[cur]
        IN  /\ doc.saiba_sync_status = "Synced" <=> FinalResponseIsSuccess
            /\ doc.saiba_sync_status \in {"Synced", "Failed"}
            /\ doc.saiba_sync_status = "Failed" => doc.saiba_sync_error # NULL
            /\ doc.saiba_sync_response.request = payload
            /\ doc.saiba_sync_response.response # EmptyData

\* C5: a policy POST never carries a token that is absent or whose cached expiry is
\* 5 minutes or less away, and the token it carries is the cached one; when the
\* cached token is absent or that close to expiry the invocation first calls the
\* token endpoint and caches the new token with expiry now + 23h before its policy
\* POST; a cached token with more than 5 minutes left is reused, unchanged, without
\* a call to the token endpoint.
C5_TokenFreshWhenSent ==
    /\ [](pc \in {"post1", "post2"} =>
            /\ bearer # NULL
            /\ bearer = tx.saiba_token
            /\ tx.saiba_token_expiry # NoTime
            /\ tx.saiba_token_expiry > now + TokenBufferMinutes)
    /\ []((pc \in {"post1", "post2"} /\ Len(TokenRequests(http_log)) > 0) =>
            /\ db.saiba_token = bearer
            /\ db.saiba_token_expiry = now + TOKEN_VALIDITY_HOURS * MinutesPerHour)
    /\ [][(pc = "idle" /\ pc' \in InFlight) =>
            IF tx.saiba_token # NULL /\ tx.saiba_token_expiry # NoTime
               /\ tx.saiba_token_expiry - now > TokenBufferMinutes
            THEN /\ pc' = "post1"
                 /\ bearer' = tx.saiba_token
                 /\ tx'.saiba_token = tx.saiba_token
                 /\ tx'.saiba_token_expiry = tx.saiba_token_expiry
                 /\ Len(TokenRequests(http_log')) = 0
            ELSE /\ pc' = "token1"
                 /\ Len(PolicyRequests(http_log')) = 0]_vars

\* C5 witness: a cached token with 6 minutes left is in flight as bearer of the
\* policy POST, and the invocation made no token request.
C5_Witness ==
    /\ pc = "post1"
    /\ bearer = "tok-0"
    /\ tx.saiba_token_expiry - now = TokenBufferMinutes + 1
    /\ Len(TokenRequests(http_log)) = 0

\* C6 as stated: after a completed invocation every sync field of the record
\* describes that invocation's outcome - the status and error its result, the
\* datetime its time, the control number the one it obtained (none if it obtained
\* none), the stored request/response what it sent and received.
C6_Original ==
    SyncRan =>
        LET doc == db.docs[cur]
        IN  /\ (doc.saiba_sync_status = "Synced") = result.success
            /\ doc.saiba_sync_error = result.error
            /\ doc.saiba_sync_datetime = now
            /\ doc.saiba_control_number = result.control_number
            /\ doc.saiba_sync_response.request = payload

\* C7: every status written by _update_sync_status is committed at once (the
\* request's view of the policy records never differs from the committed one), so
\* while any HTTP request of an invocation is in flight the committed status is
\* Pending, and a crash at that point leaves the committed status Pending.
C7_StatusCommittedBeforeRequest ==
    /\ [](tx.docs = db.docs)
    /\ [](pc \in InFlight => db.docs[cur].saiba_sync_status = "Pending")
    /\ [][(pc \in InFlight /\ pc' = "idle") =>
            /\ \E dt \in Doctypes :
                  db'.docs[dt] # NoDoc /\ db'.docs[dt].saiba_sync_status = "Pending"
            /\ tx' = db']_vars

\* C7 witness: the process died during an HTTP request of a re-sync of a policy that
\* was Synced before; the committed status is Pending.
C7_Witness ==
    /\ pc = "idle"
    /\ \E dt \in Doctypes :
          /\ db.docs[dt] # NoDoc
          /\ db.docs[dt].saiba_sync_status = "Pending"
          /\ db.docs[dt].saiba_control_number = Digits398254

\* ==================================================== validation engine
\* services/saiba_validation_service.py

\* ---------------------------------------------------------------- bounds
\* longest rule table of a policy type
MaxRules == 2

\* ------------------------------------------------------- Python helpers
DigitChars == <<"0", "1", "2", "3", "4", "5", "6", "7", "8", "9">>

\* value of a sequence of digits
RECURSIVE Number(_)
Number(digits) ==
    IF digits = <<>> THEN 0
    ELSE Number(SubSeq(digits, 1, Len(digits) - 1)) * Len(DigitChars)
         + (CHOOSE i \in 1..Len(DigitChars) : DigitChars[i] = digits[Len(digits)]) - 1

\* str(i) of a natural number
RECURSIVE NaturalText(_)
NaturalText(i) ==
    IF i < Len(DigitChars) THEN <<DigitChars[i + 1]>>
    ELSE NaturalText(i \div Len(DigitChars)) \o <<DigitChars[(i % Len(DigitChars)) + 1]>>

\* str(i) of an int
IntText(i) == IF i < 0 THEN <<"-">> \o NaturalText(0 - i) ELSE NaturalText(i)

\* str(value)
PyStr(value) ==
    CASE value.py = "str" -> value.s
      [] value.py = "int" -> IntText(value.n)
      [] value.py = "date" -> value.s
      [] value.py = "bool" -> IF value.n = 1 THEN <<"T", "r", "u", "e">>
                              ELSE <<"F", "a", "l", "s", "e">>
      [] OTHER -> <<"N", "o", "n", "e">>

\* text.strip()
strip(text) ==
    LET inked == {i \in 1..Len(text) : ~IsSpace(text[i])}
    IN  IF inked = {} THEN <<>>
        ELSE SubSeq(text, CHOOSE i \in inked : \A j \in inked : i <= j,
                          CHOOSE i \in inked : \A j \in inked : j <= i)

UpperChar(c) ==
    IF \E i \in 1..Len(LowerLetters) : LowerLetters[i] = c
    THEN UpperLetters[CHOOSE i \in 1..Len(LowerLetters) : LowerLetters[i] = c]
    ELSE c

\* text.upper() / text.lower()
upper(text) == [i \in 1..Len(text) |-> UpperChar(text[i])]
lower(text) == [i \in 1..Len(text) |-> LowerChar(text[i])]

\* float(text) accepts [sign] digits [. digits] (at least one digit) around
\* whitespace; the other spellings float() knows (exponents, inf, nan, _) are
\* not among the texts of the model
IsDecimalText(text) ==
    LET t == strip(text)
        body == IF t # <<>> /\ t[1] \in {"+", "-"} THEN Tail(t) ELSE t
        dots == {i \in 1..Len(body) : body[i] = "."}
    IN  IF dots = {} THEN body # <<>> /\ \A i \in 1..Len(body) : IsDigit(body[i])
        ELSE /\ Cardinality(dots) = 1
             /\ Len(body) > 1
             /\ \A i \in 1..Len(body) : i \in dots \/ IsDigit(body[i])

\* int(float(text)) of a text float() accepts: the integral part, sign kept
TruncatedValue(text) ==
    LET t == strip(text)
        negative == t[1] = "-"
        body == IF t[1] \in {"+", "-"} THEN Tail(t) ELSE t
        dots == {i \in 1..Len(body) : body[i] = "."}
        whole == IF dots = {} THEN body
                 ELSE SubSeq(body, 1, (CHOOSE i \in dots : TRUE) - 1)
    IN  IF negative THEN 0 - Number(whole) ELSE Number(whole)

\* frappe.utils.cint: int(float(s)), and 0 when that raises
cint(value) ==
    CASE value.py \in {"int", "bool"} -> value.n
      [] value.py = "str" -> IF IsDecimalText(value.s) THEN TruncatedValue(value.s) ELSE 0
      [] OTHER -> 0

\* YYYY-MM-DD naming a day of the calendar
IsIsoDate(text) ==
    /\ Len(text) = 10
    /\ text[5] = "-" /\ text[8] = "-"
    /\ \A i \in {1, 2, 3, 4, 6, 7, 9, 10} : IsDigit(text[i])
    /\ LET year == Number(SubSeq(text, 1, 4))
           month == Number(SubSeq(text, 6, 7))
           day == Number(SubSeq(text, 9, 10))
           leap == (year % 4 = 0 /\ year % 100 # 0) \/ year % 400 = 0
           days == IF month = 2 THEN (IF leap THEN 29 ELSE 28)
                   ELSE IF month \in {4, 6, 9, 11} THEN 30 ELSE 31
       IN  year >= 1 /\ month \in 1..12 /\ day >= 1 /\ day <= days

Today == <<"2", "0", "2", "6", "-", "0", "1", "-", "0", "1">>

\* frappe.utils.getdate: today for a falsy argument, a date as it is, the parsed
\* date of a text, and an exception for a text that names no date and for a value
\* that is neither text nor date.  Of the formats the parser reads, the texts of
\* the date field of the model use YYYY-MM-DD.
getdate(value) ==
    CASE value.py = "NoneType" -> [raised |-> FALSE, iso |-> Today]
      [] value.py = "date" -> [raised |-> FALSE, iso |-> value.s]
      [] value.py = "int" -> IF value.n = 0 THEN [raised |-> FALSE, iso |-> Today]
                             ELSE [raised |-> TRUE, iso |-> <<>>]
      [] OTHER -> IF value.s = <<>> THEN [raised |-> FALSE, iso |-> Today]
                  ELSE IF IsIsoDate(value.s) THEN [raised |-> FALSE, iso |-> value.s]
                  ELSE [raised |-> TRUE, iso |-> <<>>]

\* ------------------------------------------------------ validate_field
CATEGORY_ORDER == <<"Policy Information", "Customer & Insurer", "Vehicle Information",
                    "Insured Persons", "Financial", "Dates">>

\* the validation types validate_field has a branch for
KnownValidationTypes == {"string", "integer", "integer_nonzero", "integer_positive",
                         "date", "yes_no", "new_renew", "gcv_pcv_misc"}

\* value is None or str(value).strip() == ""
IsBlank(value) == value.py = "NoneType" \/ strip(PyStr(value)) = <<>>
\* value is None or value == ""
IsUnset(value) == value.py = "NoneType" \/ (value.py = "str" /\ value.s = <<>>)

Valid == [is_valid |-> TRUE, error |-> NULL]
Invalid(message) == [is_valid |-> FALSE, error |-> message]

YesNoTexts == {<<"Y", "E", "S">>, <<"N", "O">>}
NewRenewTexts == {<<"n", "e", "w">>, <<"r", "e", "n", "e", "w">>}
VehicleCategoryTexts == {<<"G", "C", "V">>, <<"P", "C", "V">>, <<"M", "I", "S", "C">>,
                         <<"M", "I", "S", "C", ".">>, <<"G", "S", "V">>}

\* mutant of validate_field: the integer types forget the check for an unset value
validate_field_unset_integer(value, validation_type) ==
    CASE validation_type = "string" ->
            IF IsBlank(value) THEN Invalid("Required") ELSE Valid
      [] validation_type = "integer" -> Valid
      [] validation_type = "integer_nonzero" ->
            IF cint(value) = 0 THEN Invalid("Must be non-zero") ELSE Valid
      [] validation_type = "integer_positive" ->
            IF cint(value) <= 0 THEN Invalid("Must be greater than 0") ELSE Valid
      [] validation_type = "date" ->
            IF IsUnset(value) THEN Invalid("Required")
            ELSE IF getdate(value).raised THEN Invalid("Invalid date") ELSE Valid
      [] validation_type = "yes_no" ->
            IF IsBlank(value) THEN Invalid("Required")
            ELSE IF upper(PyStr(value)) \notin YesNoTexts THEN Invalid("Must be Yes or No")
            ELSE Valid
      [] validation_type = "new_renew" ->
            IF IsBlank(value) THEN Invalid("Required")
            ELSE IF lower(PyStr(value)) \notin NewRenewTexts THEN Invalid("Must be New or Renew")
            ELSE Valid
      [] validation_type = "gcv_pcv_misc" ->
            IF IsBlank(value) THEN Invalid("Required")
            ELSE IF upper(PyStr(value)) \notin VehicleCategoryTexts
                 THEN Invalid("Must be GCV, PCV, or Misc")
            ELSE Valid
      [] OTHER -> Valid

\* (is_valid, error_message).  cint never raises, so the "Must be a number"
\* branches cannot be taken.
validate_field(value, validation_type) ==
    CASE validation_type = "string" ->
            IF IsBlank(value) THEN Invalid("Required") ELSE Valid
      [] validation_type = "integer" ->
            IF IsUnset(value) THEN Invalid("Required") ELSE Valid
      [] validation_type = "integer_nonzero" ->
            IF IsUnset(value) THEN Invalid("Required")
            ELSE IF cint(value) = 0 THEN Invalid("Must be non-zero") ELSE Valid
      [] validation_type = "integer_positive" ->
            IF IsUnset(value) THEN Invalid("Required")
            ELSE IF cint(value) <= 0 THEN Invalid("Must be greater than 0") ELSE Valid
      [] validation_type = "date" ->
            IF IsUnset(value) THEN Invalid("Required")
            ELSE IF getdate(value).raised THEN Invalid("Invalid date") ELSE Valid
      [] validation_type = "yes_no" ->
            IF IsBlank(value) THEN Invalid("Required")
            ELSE IF upper(PyStr(value)) \notin YesNoTexts THEN Invalid("Must be Yes or No")
            ELSE Valid
      [] validation_type = "new_renew" ->
            IF IsBlank(value) THEN Invalid("Required")
            ELSE IF lower(PyStr(value)) \notin NewRenewTexts THEN Invalid("Must be New or Renew")
            ELSE Valid
      [] validation_type = "gcv_pcv_misc" ->
            IF IsBlank(value) THEN Invalid("Required")
            ELSE IF upper(PyStr(value)) \notin VehicleCategoryTexts
                 THEN Invalid("Must be GCV, PCV, or Misc")
            ELSE Valid
      [] OTHER -> Valid

\* "Not Set", getdate(value).strftime("%d-%m-%Y"), str(cint(value)) or str(value)
format_display_value(value, validation_type) ==
    IF IsUnset(value) THEN <<"N", "o", "t", " ", "S", "e", "t">>
    ELSE IF validation_type = "date"
    THEN (IF getdate(value).raised THEN PyStr(value)
          ELSE LET iso == getdate(value).iso
               IN  SubSeq(iso, 9, 10) \o <<"-">> \o SubSeq(iso, 6, 7) \o <<"-">>
                   \o SubSeq(iso, 1, 4))
    ELSE IF validation_type \in {"integer", "integer_nonzero", "integer_positive"}
    THEN IntText(cint(value))
    ELSE PyStr(value)

\* ----------------------------------------------------- validate_policy
\* settings.enabled and the rule table of the policy type
get_validation_rules(policy_type, enabled, motorRules, healthRules) ==
    IF ~enabled THEN <<>>
    ELSE IF policy_type = "Motor" THEN motorRules
    ELSE IF policy_type = "Health" THEN healthRules
    ELSE <<>>

\* the dict appended to the list of its category; value is
\* getattr(policy_doc, rule.doctype_field, None)
FieldResult(policy_doc, rule) ==
    LET value == IF rule.doctype_field \in DOMAIN policy_doc
                 THEN policy_doc[rule.doctype_field] ELSE PyNone
        checked == validate_field(value, rule.validation_type)
    IN  [label |-> rule.label, saiba_field |-> rule.saiba_field,
         doctype_field |-> rule.doctype_field,
         value |-> format_display_value(value, rule.validation_type),
         is_valid |-> checked.is_valid, error |-> checked.error]

\* categories[category_name]: the results of the category's rules, in rule order
CategoryFields(policy_doc, required, category_name) ==
    LET mine == SelectSeq(required, LAMBDA r : r.category = category_name)
    IN  [i \in 1..Len(mine) |-> FieldResult(policy_doc, mine[i])]

\* the keys of the categories dict, in insertion order
RECURSIVE CategoryNames(_)
CategoryNames(required) ==
    IF required = <<>> THEN <<>>
    ELSE LET before == CategoryNames(SubSeq(required, 1, Len(required) - 1))
             name == required[Len(required)].category
         IN  IF name \in RangeOf(before) THEN before ELSE Append(before, name)

\* mutant of CategoriesList: only the categories of CATEGORY_ORDER are listed
CategoriesList_ordered_only(policy_doc, required) ==
    LET names == CategoryNames(required)
        ordered == SelectSeq(CATEGORY_ORDER, LAMBDA c : c \in RangeOf(names))
    IN  [i \in 1..Len(ordered) |->
            [name |-> ordered[i], fields |-> CategoryFields(policy_doc, required, ordered[i])]]

\* categories_list: the categories of CATEGORY_ORDER first, then the others
CategoriesList(policy_doc, required) ==
    LET names == CategoryNames(required)
        ordered == SelectSeq(CATEGORY_ORDER, LAMBDA c : c \in RangeOf(names))
                   \o SelectSeq(names, LAMBDA c : c \notin RangeOf(CATEGORY_ORDER))
    IN  [i \in 1..Len(ordered) |->
            [name |-> ordered[i], fields |-> CategoryFields(policy_doc, required, ordered[i])]]

ReportFailure(message) == [NoReport EXCEPT !.error = message]

validate_policy(policy_doc, policy_type, enabled, motorRules, healthRules) ==
    LET rules == get_validation_rules(policy_type, enabled, motorRules, healthRules)
        required == SelectSeq(rules, LAMBDA r : r.is_required)
        results == [i \in 1..Len(required) |-> FieldResult(policy_doc, required[i])]
        valid_count == Cardinality({i \in 1..Len(results) : results[i].is_valid})
        invalid_count == Cardinality({i \in 1..Len(results) : ~results[i].is_valid})
    IN  IF rules = <<>>
        THEN ReportFailure("No validation rules found for " \o policy_type \o " policy")
        ELSE [success |-> TRUE, error |-> NULL, policy_type |-> policy_type,
              summary |-> [total_required |-> valid_count + invalid_count,
                           valid |-> valid_count,
                           invalid |-> invalid_count,
                           ready_to_sync |-> invalid_count = 0],
              categories |-> CategoriesList(policy_doc, required)]

validate_motor_policy(view, policy_doc, enabled, motorRules, healthRules) ==
    IF ~enabled THEN ReportFailure("SAIBA validation is not enabled")
    ELSE IF view.docs["Motor Policy"] = NoDoc THEN ReportFailure("Motor Policy not found")
    ELSE validate_policy(policy_doc, "Motor", enabled, motorRules, healthRules)

validate_health_policy(view, policy_doc, enabled, motorRules, healthRules) ==
    IF ~enabled THEN ReportFailure("SAIBA validation is not enabled")
    ELSE IF view.docs["Health Policy"] = NoDoc THEN ReportFailure("Health Policy not found")
    ELSE validate_policy(policy_doc, "Health", enabled, motorRules, healthRules)

\* ------------------------------------------- SAIBA Validation Settings
\* the message validate_rules throws for one table, NULL if it accepts it
DuplicateRule(rules, policy_type) ==
    IF \E i, j \in 1..Len(rules) :
          /\ i < j
          /\ rules[i].saiba_field = rules[j].saiba_field
          /\ rules[i].doctype_field = rules[j].doctype_field
    THEN "Duplicate " \o policy_type \o " rule found"
    ELSE NULL

\* mutant of validate_rules: the Health table is not checked
validate_rules_motor_only(motorRules, healthRules) ==
    DuplicateRule(motorRules, "Motor")

\* SAIBAValidationSettings.validate_rules: the Motor table first, then Health
validate_rules(motorRules, healthRules) ==
    IF DuplicateRule(motorRules, "Motor") # NULL THEN DuplicateRule(motorRules, "Motor")
    ELSE DuplicateRule(healthRules, "Health")

\* ----------------------------------------------------- validation calls
\* the whitelisted validate_motor_policy / validate_health_policy
Validate(dt) ==
    /\ report' = IF dt = "Motor Policy"
                 THEN validate_motor_policy(tx, policy_fields, validation_enabled,
                                            motor_validation_rules, health_validation_rules)
                 ELSE validate_health_policy(tx, policy_fields, validation_enabled,
                                             motor_validation_rules, health_validation_rules)
    /\ was_ready' = (report.success /\ report.summary.ready_to_sync)
    /\ last_edit' = pending_edit
    /\ pending_edit' = "none"
    /\ UNCHANGED <<policy_fields, ruleVars, syncVars, creationVars, otherVars>>

\* a user edits one field of the policy record between two validation calls
EditField(f, value) ==
    /\ pending_edit = "none"
    /\ policy_fields[f] # value
    /\ policy_fields' = [policy_fields EXCEPT ![f] = value]
    /\ pending_edit' = f
    /\ last_edit' = "none"
    /\ was_ready' = FALSE
    /\ UNCHANGED <<report, ruleVars, syncVars, creationVars, otherVars>>

\* ------------------------------------------------------- configurations
PolicyNoValues ==
    { PyNone, PyText(<<>>), PyText(<<" ">>), PyText(<<"a", "b", "c">>),
      PyText(<<"Y", "e", "s">>), PyText(<<"N", "E", "W">>),
      PyText(<<"m", "i", "s", "c", ".">>), PyText(<<"7">>), PyText(<<"-", "3", ".", "9">>),
      PyInt(0), PyInt(7) }

StartDateValues ==
    { PyNone, PyText(<<>>),
      PyText(<<"2", "0", "2", "4", "-", "0", "2", "-", "2", "9">>),
      PyText(<<"2", "0", "2", "3", "-", "0", "2", "-", "2", "9">>),
      [py |-> "date", s |-> <<"2", "0", "2", "4", "-", "0", "1", "-", "1", "5">>, n |-> 0] }

\* the rules the tables of the model are made of.  The last one has the
\* (saiba_field, doctype_field) pair of the first.
RuleUniverse ==
    << Rule("startDate", "policy_start_date", "Dates", "date", TRUE),
       Rule("policyNo", "policy_no", "Policy Information", "string", TRUE),
       Rule("insBranchCode", "policy_no", "Customer & Insurer", "integer", TRUE),
       Rule("custCode", "policy_no", "Customer & Insurer", "integer_nonzero", TRUE),
       Rule("sumInsured", "policy_no", "Financial", "integer_positive", TRUE),
       Rule("isRenewable", "policy_no", "Policy Information", "yes_no", TRUE),
       Rule("newRenewal", "policy_no", "Policy Information", "new_renew", TRUE),
       Rule("vehicleCategory", "policy_no", "Vehicle Information", "gcv_pcv_misc", TRUE),
       Rule("gst", "policy_no", "Taxes", "decimal", TRUE),
       Rule("remarks", "policy_start_date", "Remarks", "string", FALSE),
       Rule("startDate", "policy_start_date", "Policy Information", "string", TRUE) >>

\* the rules at the given positions of the universe, in its order
RulesAt(positions) ==
    LET order == CHOOSE s \in [1..Cardinality(positions) -> positions] :
                    \A a, b \in 1..Cardinality(positions) : a < b => s[a] < s[b]
    IN  [i \in 1..Cardinality(positions) |-> RuleUniverse[order[i]]]

\* the tables of at most MaxRules rules SAIBA Validation Settings can be saved with
AcceptedRuleTables ==
    LET tables == {RulesAt(p) : p \in {q \in SUBSET (1..Len(RuleUniverse)) :
                                          Cardinality(q) <= MaxRules}}
    IN  {t \in tables : validate_rules(t, <<>>) = NULL}

\* which policy exists, whether validation is enabled, and the rule table of the
\* existing policy's type
ValidationSetups ==
    [dt : {"Motor Policy"}, enabled : {TRUE}, rules : AcceptedRuleTables]
    \cup [dt : {"Health Policy"}, enabled : {TRUE},
          rules : {t \in AcceptedRuleTables : Len(t) <= 1}]
    \cup [dt : {"Motor Policy"}, enabled : {FALSE}, rules : {RulesAt({2})}]

InitValidate ==
    /\ settings = SettingsNormal
    /\ \E setup \in ValidationSetups :
          /\ validation_enabled = setup.enabled
          /\ motor_validation_rules =
                IF setup.dt = "Motor Policy" THEN setup.rules ELSE RulesPayloadFields
          /\ health_validation_rules =
                IF setup.dt = "Health Policy" THEN setup.rules ELSE RulesPayloadFields
          /\ tx = [docs |-> [d \in Doctypes |-> IF d = setup.dt THEN NewPolicy ELSE NoDoc],
                   saiba_token |-> NULL, saiba_token_expiry |-> NoTime]
    /\ db = tx
    /\ now = 0
    /\ ticks = 0
    /\ pc = "idle"
    /\ cur = "Motor Policy"
    /\ payload = {}
    /\ bearer = NULL
    /\ http_log = <<>>
    /\ http_response = NoResponse
    /\ result = NoResult
    /\ ValidationIdle
    /\ CreationIdle
    /\ OthersIdle

NextValidate ==
    \/ \E dt \in Doctypes : Validate(dt)
    \/ \E f \in Fields : \E value \in IF f = "policy_no" THEN PolicyNoValues ELSE StartDateValues :
          EditField(f, value)

SpecValidate == InitValidate /\ [][NextValidate]_vars

\* ====================================================== claims C9 - C10
\* the rule table a report was made from
ReportRules == IF report.policy_type = "Motor" THEN motor_validation_rules
               ELSE health_validation_rules
\* the positions <<category, field>> of the results listed in the report
ReportCells ==
    UNION {{<<k, j>> : j \in 1..Len(report.categories[k].fields)} :
              k \in 1..Len(report.categories)}
\* the required rules with a validation type validate_field knows that read field f
CheckedRulesOn(rules, f) ==
    {i \in 1..Len(rules) : /\ rules[i].is_required
                           /\ rules[i].doctype_field = f
                           /\ rules[i].validation_type \in KnownValidationTypes}
\* the latest report follows a report of ready_to_sync and one edit, which emptied f
ClearedFromReady(f) ==
    /\ was_ready
    /\ last_edit = f
    /\ pending_edit = "none"
    /\ policy_fields[f] \in {PyNone, PyText(<<>>)}
    /\ report.success

\* C9: in every report of validate_policy, total_required = valid + invalid = the
\* number of required rules of the policy type's table; every required rule is
\* listed exactly once, under the category of the rule, and nothing else is listed;
\* valid counts the listed results that are valid; ready_to_sync is true if and
\* only if invalid is 0.  (A report is made whenever the table has a rule; with an
\* empty table validate_policy returns an error and no report.)
C9_ReportCountsRequiredRules ==
    /\ report.success =>
          LET rules == ReportRules
              required == {i \in 1..Len(rules) : rules[i].is_required}
              cats == report.categories
              s == report.summary
          IN  /\ rules # <<>>
              /\ s.total_required = s.valid + s.invalid
              /\ s.total_required = Cardinality(required)
              /\ Cardinality(ReportCells) = Cardinality(required)
              /\ \A i \in required :
                    LET listed == {c \in ReportCells :
                                     /\ cats[c[1]].fields[c[2]].saiba_field = rules[i].saiba_field
                                     /\ cats[c[1]].fields[c[2]].doctype_field = rules[i].doctype_field}
                    IN  /\ Cardinality(listed) = 1
                        /\ \A c \in listed : cats[c[1]].name = rules[i].category
              /\ \A k, m \in 1..Len(cats) : cats[k].name = cats[m].name => k = m
              /\ s.valid = Cardinality({c \in ReportCells : cats[c[1]].fields[c[2]].is_valid})
              /\ s.invalid = Cardinality({c \in ReportCells : ~cats[c[1]].fields[c[2]].is_valid})
              /\ s.ready_to_sync <=> s.invalid = 0
    /\ ~report.success => report.summary = NoSummary /\ report.categories = <<>>

\* C9 witness: a report on two required rules, one valid and one invalid, one of
\* them in a category that CATEGORY_ORDER does not name.
C9_Witness ==
    /\ report.success
    /\ report.summary.total_required = 2
    /\ report.summary.valid = 1
    /\ report.summary.invalid = 1
    /\ Len(report.categories) = 2
    /\ report.categories[2].name = "Taxes"

\* C10 as stated: when a report said ready_to_sync and one field that a required
\* rule reads is then set to empty, the next report says ready_to_sync = false and
\* invalid = 1 (one more than the 0 of the ready report).  Checked here for the
\* fields read by a required rule of a validation type that validate_field knows.
C10_Original ==
    \A f \in Fields :
        (ClearedFromReady(f) /\ CheckedRulesOn(ReportRules, f) # {})
        => /\ ~report.summary.ready_to_sync
           /\ report.summary.invalid = 1

\* C10 amended: when a report said ready_to_sync and one field is then set to empty
\* (None or ""), the next report's invalid is the number of required rules with a
\* validation type validate_field knows that read that field, each of them listed
\* as invalid with the error "Required"; ready_to_sync is false if and only if there
\* is such a rule.  The number is 1 when exactly one such rule reads the field; it
\* is more when several accepted rules (different saiba_field) read the same field,
\* and 0 when the field's required rules all have an unknown validation type.
C10_ClearedFieldFailsItsRules ==
    \A f \in Fields :
        ClearedFromReady(f) =>
            LET rules == ReportRules
                cats == report.categories
                hit == CheckedRulesOn(rules, f)
            IN  /\ report.summary.invalid = Cardinality(hit)
                /\ report.summary.valid = report.summary.total_required - Cardinality(hit)
                /\ report.summary.ready_to_sync <=> hit = {}
                /\ \A c \in ReportCells :
                      LET cell == cats[c[1]].fields[c[2]]
                      IN  ~cell.is_valid <=>
                             \E i \in hit : rules[i].saiba_field = cell.saiba_field
                /\ \A c \in ReportCells :
                      ~cats[c[1]].fields[c[2]].is_valid =>
                          cats[c[1]].fields[c[2]].error = "Required"

\* C10 witness: policy_no was emptied after a ready report and two required rules
\* read it: the report shows invalid = 2.
C10_Witness ==
    /\ ClearedFromReady("policy_no")
    /\ report.summary.total_required = 2
    /\ report.summary.invalid = 2
    /\ ~report.summary.ready_to_sync

\* ================================================ policy creation
\* services/policy_creation_service.py, doctype/policy_document/policy_document.py

\* ---------------------------------------------------------------- bounds
\* most policies of one type created from the Policy Document
MaxPolicies == 2

\* the name of the Policy Document, and a name no document has
DocumentName == "PD-1"
MissingName == "PD-404"

\* contents of Policy Document.extracted_fields: not set, JSON objects, a JSON
\* list, and a text that is no JSON
ExtractedTexts == {"", "{}", "{\"policy_no\": \"P-1\"}", "[\"P-1\"]", "policy_no: P-1"}

\* CommonService.safe_parse_json: the type of what frappe.parse_json returns, and
\* the default {} when it raises
safe_parse_json(json_string) ==
    IF json_string \in {"{}", "{\"policy_no\": \"P-1\"}"} THEN "dict"
    ELSE IF json_string = "[\"P-1\"]" THEN "list"
    ELSE "dict"

\* policy_type.lower()
LowerPolicyType(policy_type) ==
    CASE policy_type \in {"Motor", "motor"} -> "motor"
      [] policy_type \in {"Health", "health"} -> "health"
      [] OTHER -> policy_type

\* frappe.db.rollback()
db_rollback(S) == [S EXCEPT !.tx = S.db]

\* an exception leaves the function
Raised(S, message) ==
    [raised |-> TRUE, message |-> message, S |-> S, result |-> NoCreateResult]

\* CommonService.handle_processing_exception: log the error, then frappe.throw
handle_processing_exception(S) ==
    Raised(S, "Unexpected error occurred while creating policy record. Please contact support.")

\* the mutant handles the exception without a rollback
CreateExceptKeepsWrites(S) == handle_processing_exception(S)

\* except Exception as e: frappe.db.rollback(); handle_processing_exception(...)
CreateExcept(S) == handle_processing_exception(db_rollback(S))

\* policy_record.insert(): one more policy of the type, numbered in sequence
InsertPolicy(S, t) ==
    IF t = "motor" THEN [S EXCEPT !.tx.motor = @ + 1] ELSE [S EXCEPT !.tx.health = @ + 1]

\* policy_doc.motor_policy / health_policy = policy_record.name; policy_doc.save()
LinkPolicy(S, t) ==
    IF t = "motor" THEN [S EXCEPT !.tx.policy_document.motor_policy = S.tx.motor]
    ELSE [S EXCEPT !.tx.policy_document.health_policy = S.tx.health]

\* PolicyCreationService.create_policy_record.  fault names the persistence call
\* that raises ("none", "insert" for policy_record.validate()/insert(), "save" for
\* policy_doc.save()).  Returns [raised, message, S, result].
create_policy_record(S, mappings, policy_document_name, policy_type, fault) ==
    IF policy_document_name = ""
    THEN Raised(S, "Invalid input: missing required fields: policy_document_name")
    ELSE IF policy_type = NULL \/ policy_type = ""
    THEN Raised(S, "Invalid input: policy type is required and must be a string")
    ELSE IF LowerPolicyType(policy_type) \notin {"motor", "health"}
    THEN Raised(S, "Invalid input: policy type must be either 'motor' or 'health'")
    ELSE LET t == LowerPolicyType(policy_type)
             policy_doc == S.tx.policy_document
         IN  IF policy_document_name # DocumentName THEN CreateExcept(S)
             ELSE IF policy_doc.extracted_fields = "" THEN CreateExcept(S)
             ELSE IF ~mappings[t] THEN CreateExcept(S)
             ELSE IF safe_parse_json(policy_doc.extracted_fields) # "dict" THEN CreateExcept(S)
             ELSE IF fault = "insert" THEN CreateExcept(S)
             ELSE IF fault = "save" THEN CreateExcept(InsertPolicy(S, t))
             ELSE LET done == db_commit(LinkPolicy(InsertPolicy(S, t), t))
                  IN  [raised |-> FALSE, message |-> NULL, S |-> done,
                       result |-> [success |-> TRUE, error |-> NULL,
                                   policy_name |-> IF t = "motor" THEN done.tx.motor
                                                   ELSE done.tx.health,
                                   policy_type |-> t]]

\* PolicyCreationService.validate_policy_creation_prerequisites: the error, NULL if
\* the prerequisites are met
validate_policy_creation_prerequisites(S, policy_document_name) ==
    LET policy_doc == S.tx.policy_document
    IN  IF policy_document_name # DocumentName THEN "Policy Document not found"
        ELSE IF policy_doc.extracted_fields = ""
        THEN "No extracted fields found. Please extract fields first."
        ELSE IF policy_doc.policy_type = NULL
        THEN "Policy type is not set. Please set the policy type first."
        ELSE IF LowerPolicyType(policy_doc.policy_type) = "motor" /\ policy_doc.motor_policy # 0
        THEN "Motor policy already exists for this document."
        ELSE IF LowerPolicyType(policy_doc.policy_type) = "health" /\ policy_doc.health_policy # 0
        THEN "Health policy already exists for this document."
        ELSE NULL

\* PolicyDocument.create_policy_entry: prerequisites, create_policy_record, and
\* every exception turned into {"success": False, "error": str(e)}
create_policy_entry(S, mappings, fault) ==
    LET error == validate_policy_creation_prerequisites(S, DocumentName)
        made == create_policy_record(S, mappings, DocumentName,
                                     S.tx.policy_document.policy_type, fault)
    IN  IF error # NULL
        THEN [raised |-> FALSE, message |-> NULL, S |-> S,
              result |-> [NoCreateResult EXCEPT !.error = error]]
        ELSE IF made.raised
        THEN [raised |-> FALSE, message |-> NULL, S |-> made.S,
              result |-> [NoCreateResult EXCEPT !.error = made.message]]
        ELSE made

\* policy_creation_endpoints.create_policy_entry: the prerequisites, then
\* create_policy_record for extraction_policy_type or policy_type, and every
\* exception turned into {"success": False, "error": str(e)}
create_policy_entry_endpoint(S, mappings, fault) ==
    LET error == validate_policy_creation_prerequisites(S, DocumentName)
        policy_doc == S.tx.policy_document
        extraction_policy_type == IF policy_doc.extraction_policy_type # NULL
                                  THEN policy_doc.extraction_policy_type
                                  ELSE policy_doc.policy_type
        made == create_policy_record(S, mappings, DocumentName, extraction_policy_type, fault)
    IN  IF error # NULL
        THEN [raised |-> FALSE, message |-> NULL, S |-> S,
              result |-> [NoCreateResult EXCEPT !.error = error]]
        ELSE IF made.raised
        THEN [raised |-> FALSE, message |-> NULL, S |-> made.S,
              result |-> [NoCreateResult EXCEPT !.error = made.message]]
        ELSE made

\* ------------------------------------------------------ creation calls
CallRecord(op, policy_document_name, policy_type, made) ==
    [op |-> op, policy_document_name |-> policy_document_name, policy_type |-> policy_type,
     kind |-> IF made.raised THEN "raised" ELSE "returned",
     message |-> made.message, result |-> made.result]

\* processing stores the extraction output of a document of the chosen policy type
StoreExtraction(policy_type, extracted) ==
    /\ create_tx' = [create_tx EXCEPT !.policy_document.policy_type = policy_type,
                                      !.policy_document.extracted_fields = extracted]
    /\ create_db' = create_tx'
    /\ UNCHANGED <<field_mappings, create_call, syncVars, ruleVars, validationVars, otherVars>>

\* a caller invokes PolicyCreationService.create_policy_record
CreatePolicyRecord(policy_document_name, policy_type, fault) ==
    /\ create_tx.motor < MaxPolicies
    /\ create_tx.health < MaxPolicies
    /\ LET made == create_policy_record([tx |-> create_tx, db |-> create_db], field_mappings,
                                        policy_document_name, policy_type, fault)
       IN  /\ create_tx' = made.S.tx
           /\ create_db' = made.S.db
           /\ create_call' = CallRecord("create_policy_record", policy_document_name,
                                        policy_type, made)
    /\ UNCHANGED <<field_mappings, syncVars, ruleVars, validationVars, otherVars>>

\* the "create policy" button of the Policy Document form
CreatePolicyEntry(fault) ==
    /\ create_tx.motor < MaxPolicies
    /\ create_tx.health < MaxPolicies
    /\ LET made == create_policy_entry([tx |-> create_tx, db |-> create_db], field_mappings, fault)
       IN  /\ create_tx' = made.S.tx
           /\ create_db' = made.S.db
           /\ create_call' = CallRecord("create_policy_entry", DocumentName,
                                        create_tx.policy_document.policy_type, made)
    /\ UNCHANGED <<field_mappings, syncVars, ruleVars, validationVars, otherVars>>

\* the whitelisted create_policy_entry(policy_document_name) of the endpoints
CreatePolicyEndpoint(fault) ==
    /\ create_tx.motor < MaxPolicies
    /\ create_tx.health < MaxPolicies
    /\ LET made == create_policy_entry_endpoint([tx |-> create_tx, db |-> create_db],
                                                field_mappings, fault)
       IN  /\ create_tx' = made.S.tx
           /\ create_db' = made.S.db
           /\ create_call' = CallRecord("create_policy_entry_endpoint", DocumentName,
                                        create_tx.policy_document.policy_type, made)
    /\ UNCHANGED <<field_mappings, syncVars, ruleVars, validationVars, otherVars>>

\* the Policy Document is saved with a policy type and the policy type its
\* extraction was made for (None: never recorded)
EditPolicyDocument(policy_type, extraction_policy_type) ==
    /\ create_tx' = [create_tx EXCEPT
                        !.policy_document.policy_type = policy_type,
                        !.policy_document.extraction_policy_type = extraction_policy_type]
    /\ create_db' = create_tx'
    /\ UNCHANGED <<field_mappings, create_call, syncVars, ruleVars, validationVars, otherVars>>

\* ------------------------------------------------------- configurations
\* where a call may fail inside: nowhere, at the insert of the policy, or at the
\* save of the Policy Document
Faults == {"none", "insert", "save"}

\* no policy exists and no sync has been asked for
SyncIdle ==
    /\ settings = SettingsNormal
    /\ tx = [docs |-> [d \in Doctypes |-> NoDoc], saiba_token |-> NULL, saiba_token_expiry |-> NoTime]
    /\ db = tx
    /\ now = 0
    /\ ticks = 0
    /\ pc = "idle"
    /\ cur = "Motor Policy"
    /\ payload = {}
    /\ bearer = NULL
    /\ http_log = <<>>
    /\ http_response = NoResponse
    /\ result = NoResult

InitCreate ==
    /\ SyncIdle
    /\ motor_validation_rules = RulesPayloadFields
    /\ health_validation_rules = RulesPayloadFields
    /\ validation_enabled = TRUE
    /\ ValidationIdle
    /\ OthersIdle
    /\ field_mappings \in {[motor |-> TRUE, health |-> TRUE],
                          [motor |-> TRUE, health |-> FALSE],
                          [motor |-> FALSE, health |-> FALSE]}
    /\ create_tx = NoPolicies
    /\ create_db = NoPolicies
    /\ create_call = NoCall

NextCreate ==
    \/ \E policy_type \in {"Motor", "Health"}, extracted \in ExtractedTexts :
          StoreExtraction(policy_type, extracted)
    \/ \E policy_document_name \in {DocumentName, MissingName, ""},
          policy_type \in {"Motor", "health", "Marine", NULL}, fault \in Faults :
          CreatePolicyRecord(policy_document_name, policy_type, fault)
    \/ \E fault \in Faults : CreatePolicyEntry(fault)
    \/ \E fault \in Faults : CreatePolicyEndpoint(fault)
    \/ \E policy_type \in {"Motor", "Health"}, extraction_policy_type \in {NULL, "Motor"} :
          EditPolicyDocument(policy_type, extraction_policy_type)

SpecCreate == InitCreate /\ [][NextCreate]_vars

\* ============================================================= claim C8
\* the arguments of the latest call have the type and shape the operation asks
\* for: a document name, and a policy type that names Motor or Health
ValidArguments ==
    /\ create_call.policy_document_name \in {DocumentName, MissingName}
    /\ create_call.policy_type # NULL
    /\ LowerPolicyType(create_call.policy_type) \in {"motor", "health"}

\* C8 as stated: called with arguments of valid type and shape, create_policy_record
\* returns a structured result - {success: true, ...} or {success: false, error} -
\* and lets no exception reach its caller, whatever fails inside.
C8_Original ==
    (create_call.op = "create_policy_record" /\ ValidArguments) =>
        /\ create_call.kind = "returned"
        /\ ~create_call.result.success => create_call.result.error # NULL

\* ========================================== SAIBA Validation Settings
\* doctype/saiba_validation_settings/saiba_validation_settings.py

\* the rule tables an administrator tries to save: the first two rules of the
\* universe and its last, which repeats the (saiba_field, doctype_field) pair
\* of the first
SettingsTables ==
    {RulesAt(p) : p \in {q \in SUBSET {1, 2, Len(RuleUniverse)} : Cardinality(q) <= MaxRules}}

\* settings.save(): validate() runs validate_rules and the document is written
\* only if it does not throw
SaveValidationSettings(enabled, motorRules, healthRules) ==
    LET error == validate_rules(motorRules, healthRules)
    IN  /\ settings_save' = [op |-> "save", motor_validation_rules |-> motorRules,
                             health_validation_rules |-> healthRules, error |-> error]
        /\ IF error = NULL
           THEN /\ motor_validation_rules' = motorRules
                /\ health_validation_rules' = healthRules
                /\ validation_enabled' = enabled
           ELSE UNCHANGED ruleVars
        /\ UNCHANGED <<syncVars, validationVars, creationVars, registryVars, normVars, resolveVars,
                     mapperVars, jobVars, convertVars>>

InitSettings ==
    /\ SyncIdle
    /\ motor_validation_rules = <<>>
    /\ health_validation_rules = <<>>
    /\ validation_enabled = FALSE
    /\ ValidationIdle
    /\ CreationIdle
    /\ OthersIdle

NextSettings ==
    \E enabled \in BOOLEAN, motorRules \in SettingsTables, healthRules \in SettingsTables :
        SaveValidationSettings(enabled, motorRules, healthRules)

SpecSettings == InitSettings /\ [][NextSettings]_vars

\* ============================================================ claim C11
\* the (saiba_field, doctype_field) pairs of a rule table
RulePairs(rules) == {<<rules[i].saiba_field, rules[i].doctype_field>> : i \in 1..Len(rules)}
\* no two rows of the table have the same pair
NoDuplicatePair(rules) == Cardinality(RulePairs(rules)) = Len(rules)

\* C11: a save of SAIBA Validation Settings is rejected exactly when the Motor
\* table or the Health table it carries holds two rules with the same
\* (saiba_field, doctype_field) pair; an accepted save stores the tables it
\* carries, so the stored Motor table and the stored Health table never hold a
\* duplicate pair.  A pair shared between the two tables does not count.
C11_NoDuplicatePairWithinType ==
    /\ NoDuplicatePair(motor_validation_rules)
    /\ NoDuplicatePair(health_validation_rules)
    /\ settings_save.op = "save" =>
          /\ settings_save.error # NULL <=>
                ~(NoDuplicatePair(settings_save.motor_validation_rules)
                  /\ NoDuplicatePair(settings_save.health_validation_rules))
          /\ settings_save.error = NULL =>
                /\ motor_validation_rules = settings_save.motor_validation_rules
                /\ health_validation_rules = settings_save.health_validation_rules

\* an accepted save of two rules for Motor, one of whose pairs the Health table
\* has too
C11_Witness ==
    /\ settings_save.op = "save"
    /\ settings_save.error = NULL
    /\ Len(motor_validation_rules) = 2
    /\ RulePairs(motor_validation_rules) \cap RulePairs(health_validation_rules) # {}

\* ======================================================= alias registry
\* doctype/policy_reader_settings/policy_reader_settings.py
\* Keys and values of the alias dicts are texts (sequences of characters).  The
\* dicts are stored as JSON text; frappe.as_json followed by frappe.parse_json
\* gives back a dict of texts to texts unchanged, so the stored dict stands for
\* its text.

\* ---------------------------------------------------------------- bounds
\* alias registry operations of a behaviour
MaxAliasOps == 2

\* mapping[key] = value
dict_set(mapping, key, value) ==
    [k \in DOMAIN mapping \cup {key} |-> IF k = key THEN value ELSE mapping[k]]

\* mapping.setdefault(key, value)
setdefault(mapping, key, value) ==
    IF key \in DOMAIN mapping THEN mapping ELSE dict_set(mapping, key, value)

\* for alias in aliases: if alias: mapping[alias] = canonical
RECURSIVE SetAliases(_, _, _)
SetAliases(mapping, aliases, canonical) ==
    IF aliases = <<>> THEN mapping
    ELSE SetAliases(IF Head(aliases) = <<>> THEN mapping
                    ELSE dict_set(mapping, Head(aliases), canonical),
                    Tail(aliases), canonical)

\* alias_map of build_default_field_mapping, as a list of (canonical, aliases):
\* the rows "cc" and "gst" of the Motor table and the row "gst" of the Health
\* table, each with the first alias and the aliases the model's operations name
alias_map(policy_type_lower) ==
    CASE policy_type_lower = "motor" ->
            << << <<"c", "c">>, << <<"C", "C">>, <<"c", "c">> >> >>,
               << <<"g", "s", "t">>,
                  << <<"G", "S", "T">>, <<"T", "a", "x">>, <<"g", "s", "t">> >> >> >>
      [] policy_type_lower = "health" ->
            << << <<"g", "s", "t">>,
                  << <<"G", "S", "T">>, <<"T", "a", "x">>, <<"g", "s", "t">> >> >> >>
      [] OTHER -> <<>>

\* for canonical_field, aliases in ...items(): mapping[canonical_field] =
\* canonical_field; for alias in aliases: mapping[alias] = canonical_field
RECURSIVE AddRows(_, _)
AddRows(mapping, rows) ==
    IF rows = <<>> THEN mapping
    ELSE AddRows(SetAliases(dict_set(mapping, Head(rows)[1], Head(rows)[1]),
                            Head(rows)[2], Head(rows)[1]),
                 Tail(rows))

build_default_field_mapping(policy_type) ==
    AddRows(EmptyDict, alias_map(LowerPolicyType(policy_type)))

\* _get_mapping_container_and_key: the container, NULL for another policy type
MappingContainer(policy_type) ==
    IF LowerPolicyType(policy_type) \in {"motor", "health"}
    THEN LowerPolicyType(policy_type) ELSE NULL

\* what an operation of the registry leaves: the dicts stored, and whether it threw
RegistryResult(maps, raised) == [maps |-> maps, raised |-> raised]

\* refresh_field_mappings: both dicts are rebuilt from the default table and saved
refresh_field_mappings(maps) ==
    RegistryResult([motor |-> build_default_field_mapping("motor"),
                    health |-> build_default_field_mapping("health")], FALSE)

\* add_alias(policy_type, canonical_field, alias); an argument that is None or ""
\* is the empty text
add_alias(maps, policy_type, canonical_field, alias) ==
    LET container == MappingContainer(policy_type)
    IN  IF container = NULL THEN RegistryResult(maps, TRUE)
        ELSE IF canonical_field = <<>> \/ alias = <<>> THEN RegistryResult(maps, TRUE)
        ELSE RegistryResult(
                [maps EXCEPT ![container] =
                    dict_set(setdefault(maps[container], canonical_field, canonical_field),
                             alias, canonical_field)],
                FALSE)

\* A bulk payload says whether it is a JSON object and lists the items of the
\* object, each a key and a value; a value is a list of texts (aliases) or one
\* text.
ListItem(key, aliases) == [key |-> key, list |-> TRUE, aliases |-> aliases, text |-> <<>>]
TextItem(key, text) == [key |-> key, list |-> FALSE, aliases |-> <<>>, text |-> text]

\* the loop of bulk_add_aliases over data.items(), in the branch the first value
\* chose.  In the canonical -> [aliases] branch a text value is iterated
\* character by character; in the alias -> canonical branch a non-empty list
\* value is unhashable and setdefault raises TypeError.
RECURSIVE BulkLoop(_, _, _)
BulkLoop(mapping, items, canonical_first) ==
    IF items = <<>> THEN [mapping |-> mapping, raised |-> FALSE]
    ELSE LET key == Head(items).key
             value == Head(items)
         IN  IF canonical_first
             THEN LET aliases == IF value.list THEN value.aliases
                                 ELSE [i \in 1..Len(value.text) |-> <<value.text[i]>>]
                  IN  BulkLoop(SetAliases(setdefault(mapping, key, key), aliases, key),
                               Tail(items), TRUE)
             ELSE IF value.list
             THEN (IF value.aliases = <<>> THEN BulkLoop(mapping, Tail(items), FALSE)
                   ELSE [mapping |-> mapping, raised |-> TRUE])
             ELSE IF value.text = <<>> THEN BulkLoop(mapping, Tail(items), FALSE)
             ELSE BulkLoop(dict_set(setdefault(mapping, value.text, value.text),
                                    key, value.text),
                           Tail(items), FALSE)

\* bulk_add_aliases(policy_type, aliases_json)
bulk_add_aliases(maps, policy_type, data) ==
    LET container == MappingContainer(policy_type)
    IN  IF container = NULL \/ ~data.object THEN RegistryResult(maps, TRUE)
        ELSE LET looped == BulkLoop(maps[container], data.items,
                                    data.items # <<>> /\ data.items[1].list)
             IN  IF looped.raised THEN RegistryResult(maps, TRUE)
                 ELSE RegistryResult([maps EXCEPT ![container] = looped.mapping], FALSE)

\* -------------------------------------------------- registry operations
\* one whitelisted call of the registry
RegistryCall(op, done) ==
    /\ alias_ops < MaxAliasOps
    /\ alias_ops' = alias_ops + 1
    /\ alias_maps' = done.maps
    /\ alias_call' = [op |-> op, raised |-> done.raised]
    /\ resolve_call' = NoResolve
    /\ UNCHANGED <<syncVars, ruleVars, validationVars, creationVars, settings_save, normVars,
                   mapping_cache, mapperVars, jobVars, convertVars>>

RefreshFieldMappings == RegistryCall("refresh_field_mappings", refresh_field_mappings(alias_maps))

AddAlias(policy_type, canonical_field, alias) ==
    RegistryCall("add_alias", add_alias(alias_maps, policy_type, canonical_field, alias))

BulkAddAliases(policy_type, data) ==
    RegistryCall("bulk_add_aliases", bulk_add_aliases(alias_maps, policy_type, data))

\* ------------------------------------------------------- configurations
\* the payloads of the model: canonical -> [aliases] and alias -> canonical
\* payloads, one of each that names "gst" on both sides, the two mixtures of the
\* shapes, {} and a JSON list
BulkPayloads ==
    LET gst == <<"g", "s", "t">>
        tax == <<"T", "a", "x">>
        vat == <<"V", "A", "T">>
        cc == <<"c", "c">>
    IN  { [object |-> TRUE, items |-> << ListItem(gst, <<vat, <<>> >>) >>],
          [object |-> TRUE, items |-> << ListItem(gst, <<vat>>), ListItem(tax, <<gst>>) >>],
          [object |-> TRUE, items |-> << TextItem(vat, gst), TextItem(cc, <<>>) >>],
          [object |-> TRUE, items |-> << TextItem(vat, gst), TextItem(gst, tax) >>],
          [object |-> TRUE, items |-> << ListItem(gst, <<vat>>), TextItem(cc, gst) >>],
          [object |-> TRUE, items |-> << TextItem(vat, gst), ListItem(cc, <<tax>>) >>],
          [object |-> TRUE, items |-> <<>>],
          [object |-> FALSE, items |-> <<>>] }

InitRegistry ==
    /\ SyncIdle
    /\ motor_validation_rules = RulesPayloadFields
    /\ health_validation_rules = RulesPayloadFields
    /\ validation_enabled = TRUE
    /\ ValidationIdle
    /\ CreationIdle
    /\ OthersIdle

NextRegistry ==
    \/ RefreshFieldMappings
    \/ \E policy_type \in {"Motor", "health", "marine"},
          canonical_field \in {<<"g", "s", "t">>, <<"T", "a", "x">>, <<>>},
          alias \in {<<"c", "c">>, <<"V", "A", "T">>, <<>>} :
          AddAlias(policy_type, canonical_field, alias)
    \/ \E policy_type \in {"motor", "Health", "marine"}, data \in BulkPayloads :
          BulkAddAliases(policy_type, data)

SpecRegistry == InitRegistry /\ [][NextRegistry]_vars

\* ============================================================ claim C12
\* every value of the dict is a key of the dict that maps to itself
SelfMapped(mapping) ==
    \A k \in DOMAIN mapping :
        mapping[k] \in DOMAIN mapping /\ mapping[mapping[k]] = mapping[k]

\* C12 as stated: after any sequence of refresh_field_mappings, add_alias and
\* bulk_add_aliases calls, every canonical field name of the Motor and of the
\* Health alias dict - every value some key maps to - is a key that maps to
\* itself.
C12_Original ==
    SelfMapped(alias_maps.motor) /\ SelfMapped(alias_maps.health)

\* ================================================== the key normalizer
MaxKeyLen == 3
MaxApplications == 2

\* the characters the pattern [^a-z0-9] does not match
IsLowerAlnum(c) == IsDigit(c) \/ \E i \in 1..Len(LowerLetters) : LowerLetters[i] = c

\* re.sub(r"[^a-z0-9]+", " ", value): every maximal run of other characters
\* becomes one space
re_sub_runs(value) ==
    LET marked == [i \in 1..Len(value) |->
                     IF IsLowerAlnum(value[i]) THEN value[i]
                     ELSE IF i > 1 /\ ~IsLowerAlnum(value[i - 1]) THEN "<run>"
                     ELSE " "]
    IN  SelectSeq(marked, LAMBDA c : c # "<run>")

\* the mutant joins the parts but keeps a closing space
split_join_keeps_tail(value) ==
    LET marked == [i \in 1..Len(value) |->
                     IF ~IsSpace(value[i]) THEN value[i]
                     ELSE IF i = 1 \/ IsSpace(value[i - 1]) THEN "<run>"
                     ELSE " "]
    IN  SelectSeq(marked, LAMBDA c : c # "<run>")

\* " ".join(part for part in value.split() if part)
split_join(value) ==
    LET marked == [i \in 1..Len(value) |->
                     IF ~IsSpace(value[i]) THEN value[i]
                     ELSE IF i = 1 \/ IsSpace(value[i - 1]) THEN "<run>"
                     ELSE " "]
        kept == SelectSeq(marked, LAMBDA c : c # "<run>")
    IN  IF kept # <<>> /\ kept[Len(kept)] = " " THEN SubSeq(kept, 1, Len(kept) - 1)
        ELSE kept

\* the mutant does not lowercase
normalize_key_as_typed(text) ==
    IF IsUnset(text) THEN <<>>
    ELSE split_join(re_sub_runs(strip(PyStr(text))))

\* PolicyCreationService._normalize_key
normalize_key(text) ==
    IF IsUnset(text) THEN <<>>
    ELSE split_join(re_sub_runs(lower(strip(PyStr(text)))))

\* PolicyReaderSettings._normalize_alias_key
normalize_alias_key(text) ==
    IF IsUnset(text) THEN <<>>
    ELSE split_join(re_sub_runs(lower(strip(PyStr(text)))))

PolicyNoDot == <<"P", "o", "l", "i", "c", "y", " ", "N", "o", ".">>
policy_no == <<"p", "o", "l", "i", "c", "y", "_", "n", "o">>
PolicyNo == <<"P", "o", "l", "i", "c", "y", "N", "o">>

\* the keys normalized: None, the three keys of the documentation and every
\* text of up to MaxKeyLen characters over letters of both cases, a digit, a
\* letter outside a-z and three separators
KeyInputs ==
    {PyNone} \cup
    {PyText(text) : text \in {PolicyNoDot, policy_no, PolicyNo}
        \cup UNION {[1..n -> {"N", "o", "1", "é", " ", "_", "."}] : n \in 0..MaxKeyLen}}

\* one call of a normalizer, on the input first and then on what the call
\* before returned
Normalize(normalizer) ==
    /\ Len(norm_history) < MaxApplications
    /\ LET text == IF norm_history = <<>> THEN norm_input
                   ELSE PyText(norm_history[Len(norm_history)])
       IN  norm_history' = Append(norm_history,
                                  IF normalizer = "_normalize_key" THEN normalize_key(text)
                                  ELSE normalize_alias_key(text))
    /\ UNCHANGED <<norm_input, syncVars, ruleVars, validationVars, creationVars,
                   settings_save, registryVars, resolveVars, mapperVars, jobVars, convertVars>>

NormalizeKey == Normalize("_normalize_key")

NormalizeAliasKey == Normalize("_normalize_alias_key")

InitNormalize ==
    /\ SyncIdle
    /\ motor_validation_rules = RulesPayloadFields
    /\ health_validation_rules = RulesPayloadFields
    /\ validation_enabled = TRUE
    /\ ValidationIdle
    /\ CreationIdle
    /\ SettingsSaveIdle
    /\ JobsIdle
    /\ ConverterIdle
    /\ RegistryIdle
    /\ ResolveIdle
    /\ MapperIdle
    /\ norm_input \in KeyInputs
    /\ norm_history = <<>>

NextNormalize == NormalizeKey \/ NormalizeAliasKey

SpecNormalize == InitNormalize /\ [][NextNormalize]_vars

\* ============================================================ claim C19
\* the text a normalizer was first given, None read as the empty text
NormalizedText == norm_input.s

\* the k-th smallest member of a set of positions
NthPosition(positions, k) ==
    CHOOSE p \in positions : Cardinality({q \in positions : q <= p}) = k

\* out is the lowercase text with its characters of the class kept in order,
\* one space wherever the text had other characters between two kept ones, and
\* nothing else
CollapsedForm(out, text, Kept(_)) ==
    LET value == lower(text)
        P == {i \in 1..Len(value) : Kept(value[i])}
        Q == {j \in 1..Len(out) : out[j] # " "}
        n == Cardinality(P)
    IN  /\ Cardinality(Q) = n
        /\ n = 0 => out = <<>>
        /\ n > 0 => NthPosition(Q, 1) = 1 /\ NthPosition(Q, n) = Len(out)
        /\ \A k \in 1..n : out[NthPosition(Q, k)] = value[NthPosition(P, k)]
        /\ \A k \in 1..(n - 1) :
              NthPosition(Q, k + 1) - NthPosition(Q, k)
                  = IF NthPosition(P, k + 1) = NthPosition(P, k) + 1 THEN 1 ELSE 2

\* letters and digits, as str.isalnum() has them
IsAlnum(c) == IsLowerAlnum(c) \/ c = "é" \/ \E i \in 1..Len(UpperLetters) : UpperLetters[i] = c

\* C19 as stated: the normalizer returns the lowercase input with every run
\* of non-alphanumeric characters collapsed to one space and the ends trimmed,
\* and "Policy No.", "policy_no" and "PolicyNo" all give "policy no".
C19_Original ==
    norm_history # <<>> =>
        /\ CollapsedForm(norm_history[1], NormalizedText, IsAlnum)
        /\ norm_input.s \in {PolicyNoDot, policy_no, PolicyNo}
               => norm_history[1] = <<"p", "o", "l", "i", "c", "y", " ", "n", "o">>

\* C19, amended: the normalizer returns the lowercase input with every run of
\* characters other than a-z and 0-9 collapsed to one space and the ends
\* trimmed; "Policy No." and "policy_no" give "policy no", and "PolicyNo",
\* which has no separator, gives "policyno".
C19_NormalForm ==
    norm_history # <<>> =>
        /\ CollapsedForm(norm_history[1], NormalizedText, IsLowerAlnum)
        /\ norm_input.s \in {PolicyNoDot, policy_no}
               => norm_history[1] = <<"p", "o", "l", "i", "c", "y", " ", "n", "o">>
        /\ norm_input.s = PolicyNo
               => norm_history[1] = <<"p", "o", "l", "i", "c", "y", "n", "o">>

\* "Policy No." has been normalized to "policy no"
C19_Witness ==
    /\ norm_input = PyText(PolicyNoDot)
    /\ Len(norm_history) = 1
    /\ norm_history[1] = <<"p", "o", "l", "i", "c", "y", " ", "n", "o">>

\* ============================================================ claim C20
\* C20: normalizing a normalized key returns it unchanged, whichever of the
\* two normalizers made either call and also for None and the empty text,
\* which both give the empty text.
C20_Idempotent ==
    /\ norm_history # <<>> /\ NormalizedText = <<>> => norm_history[1] = <<>>
    /\ \A i \in 2..Len(norm_history) : norm_history[i] = norm_history[i - 1]

\* a key that normalization changes has been normalized twice
C20_Witness ==
    /\ norm_input = PyText(<<"_", "N", ".">>)
    /\ norm_history = << <<"n">>, <<"n">> >>

\* ============================================ lookups in a cached mapping
\* the characters of the keys in code point order
CodePoints ==
    <<" ", ".">> \o DigitChars \o UpperLetters \o <<"_">> \o LowerLetters \o <<"é">>

\* a < b for two str
RECURSIVE TextBefore(_, _)
TextBefore(a, b) ==
    IF b = <<>> THEN FALSE
    ELSE IF a = <<>> THEN TRUE
    ELSE IF Head(a) = Head(b) THEN TextBefore(Tail(a), Tail(b))
    ELSE (CHOOSE i \in 1..Len(CodePoints) : CodePoints[i] = Head(a))
             < (CHOOSE i \in 1..Len(CodePoints) : CodePoints[i] = Head(b))

\* _build_normalized_mapping: every key keeps its value, and the normalized
\* form of a key that is no key itself gets the value of the first key with
\* that form; the keys come in the order of the stored JSON, which
\* frappe.as_json writes sorted
build_normalized_mapping(field_mapping) ==
    LET keys == DOMAIN field_mapping
        first(nk) == CHOOSE k \in keys :
                        /\ normalize_key(PyText(k)) = nk
                        /\ \A j \in keys : normalize_key(PyText(j)) = nk /\ j # k
                                              => TextBefore(k, j)
    IN  [x \in keys \cup {normalize_key(PyText(k)) : k \in keys} |->
            IF x \in keys THEN field_mapping[x] ELSE field_mapping[first(x)]]

\* the lookup of map_fields_dynamically: the key itself, then its normalized
\* form when the key is absent or maps to an empty name
lookup(field_mapping, raw_key) ==
    LET normalized_mapping == build_normalized_mapping(field_mapping)
        nk == normalize_key(PyText(raw_key))
    IN  IF raw_key \in DOMAIN normalized_mapping /\ normalized_mapping[raw_key] # <<>>
        THEN [found |-> TRUE, field |-> normalized_mapping[raw_key]]
        ELSE IF nk \in DOMAIN normalized_mapping /\ normalized_mapping[nk] # <<>>
        THEN [found |-> TRUE, field |-> normalized_mapping[nk]]
        ELSE [found |-> FALSE, field |-> <<>>]

\* get_cached_field_mapping: a cached value that is not empty is returned as
\* it is; otherwise the stored mapping is parsed, cached and returned
get_cached_field_mapping(cache, maps, policy_type) ==
    LET cache_key == LowerPolicyType(policy_type)
    IN  IF cache[cache_key].set /\ cache[cache_key].value # EmptyDict
        THEN [mapping |-> cache[cache_key].value, cache |-> cache]
        ELSE [mapping |-> maps[cache_key],
              cache |-> [cache EXCEPT ![cache_key] = [set |-> TRUE, value |-> maps[cache_key]]]]

\* a key of an extraction is looked up for a policy type
Resolve(policy_type, raw_key) ==
    LET got == get_cached_field_mapping(mapping_cache, alias_maps, policy_type)
        hit == lookup(got.mapping, raw_key)
    IN  /\ mapping_cache' = got.cache
        /\ resolve_call' = [op |-> "resolve", policy_type |-> policy_type, key |-> raw_key,
                            found |-> hit.found, field |-> hit.field]
        /\ UNCHANGED <<syncVars, ruleVars, validationVars, creationVars, settings_save,
                       registryVars, normVars, mapperVars, jobVars, convertVars>>

\* the cached value of a policy type reaches its expires_in_sec
CacheExpires(cache_key) ==
    /\ mapping_cache[cache_key].set
    /\ mapping_cache' = [mapping_cache EXCEPT ![cache_key] = NoCacheValue]
    /\ UNCHANGED <<syncVars, ruleVars, validationVars, creationVars, settings_save,
                   registryVars, normVars, resolve_call, mapperVars, jobVars, convertVars>>

NextResolve ==
    \/ RefreshFieldMappings
    \/ \E canonical_field \in {<<"g", "s", "t">>, <<"T", "a", "x">>},
          alias \in {<<"c", "c">>, <<"V", "A", "T">>, <<"V", "a", "t">>} :
          AddAlias("Motor", canonical_field, alias)
    \/ \E policy_type \in {"Motor", "health"},
          raw_key \in {<<"c", "c">>, <<"C", "c">>, <<"v", "a", "t">>, <<"G", "S", "T">>} :
          Resolve(policy_type, raw_key)
    \/ \E cache_key \in {"motor", "health"} : CacheExpires(cache_key)

SpecResolve == InitRegistry /\ [][NextResolve]_vars

\* ============================================================ claim C13
\* C13 as stated: while the stored alias registry stays as it is, the result
\* of looking a key up for a policy type is the result of the lookup in the
\* stored mapping of that policy type, whatever was done to the registry
\* before and whatever the cache holds.
C13_Original ==
    resolve_call.op = "resolve" =>
        LET hit == lookup(alias_maps[LowerPolicyType(resolve_call.policy_type)],
                          resolve_call.key)
        IN  resolve_call.found = hit.found /\ resolve_call.field = hit.field

\* ======================================================= the field mapper
MaxBagLen == 2

CcField == <<"c", "c">>
CustomerCodeField == <<"c", "u", "s", "t", "o", "m", "e", "r", "_", "c", "o", "d", "e">>
NoteField == <<"n", "o", "t", "e">>

\* a policy record before anything is set on it: an Int field, a Data field
\* that _get_protected_fields lists, and an attribute that is no field of the
\* doctype
NewPolicyRecord ==
    [f \in {CcField, CustomerCodeField, NoteField} |-> PyNone]

\* not value
IsFalsy(value) ==
    \/ value.py = "NoneType"
    \/ value.py = "str" /\ value.s = <<>>
    \/ value.py \in {"int", "bool", "float"} /\ value.n = 0

\* Python values of the other types the converter returns: a float is held in
\* hundredths, a datetime as its text YYYY-MM-DD HH:MM:SS
PyBool(b) == [py |-> "bool", s |-> <<>>, n |-> IF b THEN 1 ELSE 0]
PyFloat(hundredths) == [py |-> "float", s |-> <<>>, n |-> hundredths]
PyDate(iso) == [py |-> "date", s |-> iso, n |-> 0]
PyDatetime(text) == [py |-> "datetime", s |-> text, n |-> 0]

\* not value or str(value).strip().upper() in ['NA', 'N/A', 'NULL', 'NONE', '']
IsNotAvailable(value) ==
    \/ IsFalsy(value)
    \/ upper(strip(PyStr(value))) \in {<<"N", "A">>, <<"N", "/", "A">>, <<"N", "U", "L", "L">>, <<"N", "O", "N", "E">>, <<>>}

\* text.split(sep)
RECURSIVE split(_, _)
split(text, sep) ==
    LET at == {i \in 1..Len(text) : text[i] = sep}
    IN  IF at = {} THEN <<text>>
        ELSE LET first == CHOOSE i \in at : \A j \in at : i <= j
             IN  <<SubSeq(text, 1, first - 1)>> \o split(SubSeq(text, first + 1, Len(text)), sep)

\* text.zfill(2)
zfill(text) ==
    IF Len(text) >= 2 THEN text
    ELSE IF text # <<>> /\ text[1] \in {"+", "-"} THEN <<text[1], "0">>
    ELSE IF text = <<>> THEN <<"0", "0">>
    ELSE <<"0">> \o text

Midnight == <<" ", "0", "0", ":", "0", "0", ":", "0", "0">>

\* frappe.utils.get_datetime of a text: the parser reads YYYY-MM-DD, with or
\* without a time of day, and raises for a text that names no day
get_datetime(value) ==
    IF value.py # "str" THEN [raised |-> TRUE, text |-> <<>>]
    ELSE IF IsIsoDate(value.s) THEN [raised |-> FALSE, text |-> value.s \o Midnight]
    ELSE IF /\ Len(value.s) = 10 + Len(Midnight)
            /\ IsIsoDate(SubSeq(value.s, 1, 10))
            /\ SubSeq(value.s, 11, Len(value.s)) = Midnight
    THEN [raised |-> FALSE, text |-> value.s]
    ELSE [raised |-> TRUE, text |-> <<>>]

\* the text the converters hand to the parser: YYYY-MM-DD made of the parts of
\* a text D/M/YYYY, the value itself otherwise
FormattedDate(value) ==
    LET parts == split(strip(PyStr(value)), "/")
    IN  IF Len(parts) = 3 /\ Len(parts[1]) <= 2 /\ Len(parts[2]) <= 2 /\ Len(parts[3]) = 4
        THEN PyText(parts[3] \o <<"-">> \o zfill(parts[2]) \o <<"-">> \o zfill(parts[1]))
        ELSE value

\* convert_date_value: the date, or None when the parser raises
convert_date_value(value) ==
    IF IsNotAvailable(value) THEN PyNone
    ELSE LET parsed == getdate(FormattedDate(value))
         IN  IF parsed.raised THEN PyNone ELSE PyDate(parsed.iso)

\* convert_datetime_value: midnight of the date, or None when the parser raises
convert_datetime_value(value) ==
    IF IsNotAvailable(value) THEN PyNone
    ELSE LET formatted == FormattedDate(value)
             parsed == get_datetime(IF formatted = value THEN value
                                    ELSE PyText(formatted.s \o Midnight))
         IN  IF parsed.raised THEN PyNone ELSE PyDatetime(parsed.text)

\* text.replace(",", "")
RemoveCommas(text) == SelectSeq(text, LAMBDA c : c # ",")

\* float(text) in hundredths, of a text float() accepts with at most two decimals
HundredthsValue(text) ==
    LET t == strip(text)
        negative == t[1] = "-"
        body == IF t[1] \in {"+", "-"} THEN Tail(t) ELSE t
        dots == {i \in 1..Len(body) : body[i] = "."}
        dot == IF dots = {} THEN Len(body) + 1 ELSE CHOOSE i \in dots : TRUE
        whole == SubSeq(body, 1, dot - 1)
        decimals == SubSeq(SubSeq(body, dot + 1, Len(body)) \o <<"0", "0">>, 1, 2)
        amount == Number(whole) * 100 + Number(decimals)
    IN  IF negative THEN 0 - amount ELSE amount

\* frappe.utils.flt: float(s) with the commas of a text removed, and 0.0 when
\* that raises
flt(value) ==
    CASE value.py \in {"int", "bool"} -> value.n * 100
      [] value.py = "float" -> value.n
      [] value.py = "str" -> IF IsDecimalText(RemoveCommas(value.s))
                             THEN HundredthsValue(RemoveCommas(value.s)) ELSE 0
      [] OTHER -> 0

\* a in b, of texts
IsSubstring(a, b) ==
    \E i \in 0..(Len(b) - Len(a)) : SubSeq(b, i + 1, i + Len(a)) = a

\* _get_select_field_default: "Mr." for a field named or labelled customer_title
\* or title, otherwise none
get_select_field_default(field_name, field_label) ==
    IF lower(field_name) \in {<<"c", "u", "s", "t", "o", "m", "e", "r", "_", "t", "i", "t", "l", "e">>, <<"t", "i", "t", "l", "e">>} \/ lower(field_label) \in {<<"c", "u", "s", "t", "o", "m", "e", "r", "_", "t", "i", "t", "l", "e">>, <<"t", "i", "t", "l", "e">>}
    THEN PyText(<<"M", "r", ".">>)
    ELSE PyNone

\* the first element of a sequence of texts that passes the test
FirstOption(options, Matches(_)) ==
    options[CHOOSE i \in 1..Len(options) :
               Matches(options[i]) /\ \A j \in 1..(i - 1) : ~Matches(options[j])]

\* normalize_select_value, options being the lines of field.options: the option
\* that equals the value, or equals it but for case, or contains it or is
\* contained in it, else the default of the field; value.lower() raises for a
\* value that is no text
normalize_select_value(value, options, field_name, field_label) ==
    LET available_options == SelectSeq([i \in 1..Len(options) |-> strip(options[i])],
                                       LAMBDA opt : opt # <<>>)
        Exact(opt) == value.py = "str" /\ opt = value.s
        SameButCase(opt) == lower(opt) = lower(value.s)
        Partial(opt) == IsSubstring(lower(value.s), lower(opt)) \/ IsSubstring(lower(opt), lower(value.s))
        Found(Matches(_)) == \E i \in 1..Len(available_options) : Matches(available_options[i])
    IN  IF IsFalsy(value) \/ options = <<>> THEN [raised |-> FALSE, value |-> PyNone]
        ELSE IF upper(strip(PyStr(value))) \in {<<"N", "A">>, <<"N", "/", "A">>, <<"N", "U", "L", "L">>, <<"N", "O", "N", "E">>, <<>>}
        THEN [raised |-> FALSE, value |-> PyNone]
        ELSE IF Found(Exact)
        THEN [raised |-> FALSE, value |-> value]
        ELSE IF available_options = <<>>
        THEN [raised |-> FALSE, value |-> get_select_field_default(field_name, field_label)]
        ELSE IF value.py # "str" THEN [raised |-> TRUE, value |-> PyNone]
        ELSE IF Found(SameButCase)
        THEN [raised |-> FALSE, value |-> PyText(FirstOption(available_options, SameButCase))]
        ELSE IF Found(Partial)
        THEN [raised |-> FALSE, value |-> PyText(FirstOption(available_options, Partial))]
        ELSE [raised |-> FALSE, value |-> get_select_field_default(field_name, field_label)]

StartDateField == <<"s", "t", "a", "r", "t", "_", "d", "a", "t", "e">>
IssuedOnField == <<"i", "s", "s", "u", "e", "d", "_", "o", "n">>
PremiumField == <<"p", "r", "e", "m", "i", "u", "m">>
IsNewField == <<"i", "s", "_", "n", "e", "w">>
CustomerTitleField == <<"c", "u", "s", "t", "o", "m", "e", "r", "_", "t", "i", "t", "l", "e">>
FuelField == <<"f", "u", "e", "l">>

DocField(fieldtype, label, options) == [fieldtype |-> fieldtype, label |-> label, options |-> options]

\* frappe.get_meta(doctype): the fields of the policy doctype the model follows,
\* one of each field type the converter tells apart
Meta ==
    [f \in {CcField, CustomerCodeField, StartDateField, IssuedOnField, PremiumField, IsNewField,
            CustomerTitleField, FuelField} |->
        CASE f = CcField -> DocField("Int", <<"C", "C">>, <<>>)
          [] f = CustomerCodeField -> DocField("Data", <<"C", "o", "d", "e">>, <<>>)
          [] f = StartDateField -> DocField("Date", <<"S", "t", "a", "r", "t">>, <<>>)
          [] f = IssuedOnField -> DocField("Datetime", <<"I", "s", "s", "u", "e", "d">>, <<>>)
          [] f = PremiumField -> DocField("Float", <<"P", "r", "e", "m", "i", "u", "m">>, <<>>)
          [] f = IsNewField -> DocField("Check", <<"N", "e", "w">>, <<>>)
          [] f = CustomerTitleField -> DocField("Select", <<"T", "i", "t", "l", "e">>, <<<<"M", "r", ".">>, <<"M", "r", "s", ".">>, <<"M", "s", ".">>>>)
          [] OTHER -> DocField("Select", <<"F", "u", "e", "l">>, <<<<"P", "e", "t", "r", "o", "l">>, <<"D", "i", "e", "s", "e", "l">>, <<" ">>, <<"C", "N", "G">>>>)]

\* the try block of convert_field_value: the value converted as the type of the
\* field says, as it is for a name that is no field of the doctype, or an exception
ConvertByType(field_name, value) ==
    IF IsNotAvailable(value) THEN [raised |-> FALSE, value |-> PyNone]
    ELSE IF field_name \notin DOMAIN Meta THEN [raised |-> FALSE, value |-> value]
    ELSE LET field == Meta[field_name]
         IN  CASE field.fieldtype = "Date" -> [raised |-> FALSE, value |-> convert_date_value(value)]
               [] field.fieldtype = "Datetime" ->
                      [raised |-> FALSE, value |-> convert_datetime_value(value)]
               [] field.fieldtype = "Float" -> [raised |-> FALSE, value |-> PyFloat(flt(value))]
               [] field.fieldtype = "Int" -> [raised |-> FALSE, value |-> PyInt(cint(value))]
               [] field.fieldtype = "Check" -> [raised |-> FALSE, value |-> PyBool(TRUE)]
               [] field.fieldtype = "Select" ->
                      normalize_select_value(value, field.options, field_name, field.label)
               [] OTHER -> [raised |-> FALSE, value |-> PyText(PyStr(value))]

\* the mutant lets the exception of the try block out
convert_field_value_uncaught(field_name, value) ==
    LET done == ConvertByType(field_name, value)
    IN  IF done.raised THEN [py |-> "raised", s |-> <<>>, n |-> 0] ELSE done.value

\* convert_field_value: what the try block returns, None when it raises
convert_field_value(field_name, value) ==
    LET done == ConvertByType(field_name, value)
    IN  IF done.raised THEN PyNone ELSE done.value

\* the result of the mapper so far: the record, the count and the unmapped keys
MapperResult(policy_record, mapped_count, unmapped_fields) ==
    [record |-> policy_record, mapped_count |-> mapped_count, unmapped_fields |-> unmapped_fields]

\* the mutant counts a key whose value is blank as unmapped
map_item_counts_blank(acc, field_mapping, raw_key, raw_value) ==
    LET hit == lookup(field_mapping, raw_key)
        converted == convert_field_value(hit.field, raw_value)
    IN  IF raw_value.py = "NoneType" THEN acc
        ELSE IF hit.found /\ converted.py # "NoneType"
        THEN MapperResult([acc.record EXCEPT ![hit.field] = converted],
                          acc.mapped_count + 1, acc.unmapped_fields)
        ELSE MapperResult(acc.record, acc.mapped_count, Append(acc.unmapped_fields, raw_key))

\* one turn of the loop of map_fields_dynamically
map_item(acc, field_mapping, raw_key, raw_value) ==
    LET hit == lookup(field_mapping, raw_key)
        converted == convert_field_value(hit.field, raw_value)
    IN  IF IsBlank(raw_value) THEN acc
        ELSE IF hit.found /\ converted.py # "NoneType"
        THEN MapperResult([acc.record EXCEPT ![hit.field] = converted],
                          acc.mapped_count + 1, acc.unmapped_fields)
        ELSE MapperResult(acc.record, acc.mapped_count, Append(acc.unmapped_fields, raw_key))

\* PolicyCreationService.map_fields_dynamically(parsed_data, field_mapping,
\* policy_record, policy_type), acc being the result so far
RECURSIVE map_fields_dynamically(_, _, _)
map_fields_dynamically(parsed_data, field_mapping, acc) ==
    IF parsed_data = <<>> THEN acc
    ELSE map_fields_dynamically(Tail(parsed_data), field_mapping,
                                map_item(acc, field_mapping, Head(parsed_data).key,
                                         Head(parsed_data).value))

\* the keys and values an extraction is made of
BagKeys == {CcField, <<"C", "c">>, CustomerCodeField, <<"z", "z">>}
BagValues == {PyNone, PyText(<<" ">>), PyText(<<"N", "A">>), PyText(<<"7">>), PyInt(0)}

\* the extractions: JSON objects of up to MaxBagLen entries
RawBags ==
    {bag \in UNION {[1..n -> [key : BagKeys, value : BagValues]] : n \in 0..MaxBagLen} :
        \A i, j \in 1..Len(bag) : bag[i].key = bag[j].key => i = j}

\* the field mappings the mapper is given
FieldMappings ==
    {EmptyDict,
     [k \in {CcField, CustomerCodeField} |-> k],
     [k \in {CcField, <<"z", "z">>} |-> IF k = CcField THEN NoteField ELSE CustomerCodeField]}

\* what mapper_call keeps of a run
MapperCall(op, before, done) ==
    [mapper_call EXCEPT !.op = op, !.before = before, !.after = done.record,
                        !.mapped_count = done.mapped_count,
                        !.unmapped_fields = done.unmapped_fields]

\* the mapper runs on a new policy record
MapFields ==
    /\ mapper_call.op = "none"
    /\ mapper_call' = MapperCall("map_fields_dynamically", NewPolicyRecord,
                                 map_fields_dynamically(mapper_call.parsed_data,
                                                        mapper_call.field_mapping,
                                                        MapperResult(NewPolicyRecord, 0, <<>>)))
    /\ UNCHANGED <<syncVars, ruleVars, validationVars, creationVars, settings_save,
                   registryVars, normVars, resolveVars, jobVars, convertVars>>

\* _get_protected_fields, as far as the fields of the record above go
get_protected_fields_none == {}

get_protected_fields == {CustomerCodeField}

\* the mapper with protected_fields that create_policy_record and
\* populate_fields_from_policy_document call: a key that resolves to a
\* protected field which is already set on the record is passed over, every
\* other key is treated as above
RECURSIVE map_fields_protected(_, _, _, _)
map_fields_protected(parsed_data, field_mapping, acc, protected_fields) ==
    IF parsed_data = <<>> THEN acc
    ELSE LET hit == lookup(field_mapping, Head(parsed_data).key)
         IN  map_fields_protected(
                 Tail(parsed_data), field_mapping,
                 IF /\ ~IsBlank(Head(parsed_data).value)
                    /\ hit.found
                    /\ hit.field \in protected_fields
                    /\ ~IsFalsy(acc.record[hit.field])
                 THEN acc
                 ELSE map_item(acc, field_mapping, Head(parsed_data).key,
                               Head(parsed_data).value),
                 protected_fields)

\* _populate_customer_fields (create_policy_record) and
\* _copy_customer_info_from_policy_doc (Motor Policy, Health Policy): the
\* customer code selected on the Policy Document, if any, is set on the record
copy_customer_info(policy_record, customer_code) ==
    IF IsFalsy(customer_code) THEN policy_record
    ELSE [policy_record EXCEPT ![CustomerCodeField] = customer_code]

\* the customer codes of a Policy Document and of an existing policy record
CustomerCodes == {PyNone, PyText(<<"C", "1">>)}

\* the steps of a caller from the copy of the customer fields to the return of
\* the mapper, for an extraction whose values are None or 7; with no field
\* mapping the caller gives up before the mapper
MapProtected(op, policy_record, customer_code) ==
    LET before == copy_customer_info(policy_record, customer_code)
    IN  /\ mapper_call.op = "none"
        /\ \A i \in 1..Len(mapper_call.parsed_data) :
              mapper_call.parsed_data[i].value \in {PyNone, PyText(<<"7">>)}
        /\ mapper_call' =
              MapperCall(op, before,
                         IF mapper_call.field_mapping = EmptyDict
                         THEN MapperResult(before, 0, <<>>)
                         ELSE map_fields_protected(mapper_call.parsed_data,
                                                   mapper_call.field_mapping,
                                                   MapperResult(before, 0, <<>>),
                                                   get_protected_fields))
        /\ UNCHANGED <<syncVars, ruleVars, validationVars, creationVars, settings_save,
                       registryVars, normVars, resolveVars, jobVars, convertVars>>

\* create_policy_record, lines 60 to 85: a new record
CreateMapped(customer_code) ==
    MapProtected("create_policy_record", NewPolicyRecord, customer_code)

\* populate_fields_from_policy_document of a Motor Policy or a Health Policy
\* that may have a customer code already
PopulateFields(doctype, own_code, customer_code) ==
    MapProtected(doctype, [NewPolicyRecord EXCEPT ![CustomerCodeField] = own_code],
                 customer_code)

\* an extraction and a field mapping are at hand
InitMapper ==
    /\ SyncIdle
    /\ motor_validation_rules = RulesPayloadFields
    /\ health_validation_rules = RulesPayloadFields
    /\ validation_enabled = TRUE
    /\ ValidationIdle
    /\ CreationIdle
    /\ SettingsSaveIdle
    /\ JobsIdle
    /\ ConverterIdle
    /\ RegistryIdle
    /\ NormalizerIdle
    /\ ResolveIdle
    /\ \E parsed_data \in RawBags, field_mapping \in FieldMappings :
          mapper_call = [op |-> "none", parsed_data |-> parsed_data,
                         field_mapping |-> field_mapping,
                         before |-> EmptyDict, after |-> EmptyDict,
                         mapped_count |-> 0, unmapped_fields |-> <<>>]

NextMapper ==
    \/ MapFields
    \/ \E customer_code \in CustomerCodes : CreateMapped(customer_code)
    \/ \E doctype \in {"Motor Policy", "Health Policy"}, own_code \in CustomerCodes,
          customer_code \in CustomerCodes :
          PopulateFields(doctype, own_code, customer_code)

SpecMapper == InitMapper /\ [][NextMapper]_vars

\* ============================================================ claim C14
\* the entries of the extraction whose value passes the test
CountedEntries(Counted(_)) ==
    Cardinality({i \in 1..Len(mapper_call.parsed_data) : Counted(mapper_call.parsed_data[i].value)})

\* C14 as stated: mapped_count plus the number of unmapped fields is the
\* number of entries of the raw bag whose value is not null.
C14_Original ==
    mapper_call.op = "map_fields_dynamically" =>
        mapper_call.mapped_count + Len(mapper_call.unmapped_fields)
            = CountedEntries(LAMBDA value : value.py # "NoneType")

\* C14, amended: mapped_count plus the number of unmapped fields is the number
\* of entries of the raw bag whose value is neither null nor blank (empty or
\* whitespace only once converted to a string), and no key is listed as
\* unmapped twice.
C14_CountsNonBlankEntries ==
    mapper_call.op = "map_fields_dynamically" =>
        /\ mapper_call.mapped_count + Len(mapper_call.unmapped_fields)
               = CountedEntries(LAMBDA value : ~IsBlank(value))
        /\ \A i, j \in 1..Len(mapper_call.unmapped_fields) :
               mapper_call.unmapped_fields[i] = mapper_call.unmapped_fields[j] => i = j

\* a bag of a blank value and one value that counts has been mapped
C14_Witness ==
    /\ mapper_call.op = "map_fields_dynamically"
    /\ \E i \in 1..Len(mapper_call.parsed_data) :
          mapper_call.parsed_data[i].value = PyText(<<" ">>)
    /\ mapper_call.mapped_count + Len(mapper_call.unmapped_fields) = 1

FiveMinutes == 1
TenMinutes == 2
ThirtyMinutes == 6

Statuses == {"Draft", "Processing", "Completed", "Failed"}
ResetMessage == "Processing was reset by user"
ErrorMessages == {NULL, "", ResetMessage, "error"}

\* the extraction a call of ai_extract_fields_from_ocr or process_with_ai stores
ReExtracted == MaxJobs + 1

\* minutes since the document was saved last, in clock steps
Age(doc, clock) == clock - doc.modified

\* the mutant accepts every document
validate_nothing(doc) == TRUE

\* PolicyDocument.validate: does the document pass
validate(doc) == ~(doc.status = "Completed" /\ doc.extracted_fields = 0)

\* Document.save(): the document is written with a new modified stamp, and every
\* job that loaded it before now holds an outdated copy
save(doc, clock) == [doc EXCEPT !.modified = clock]
Outdate(queue) ==
    [j \in DOMAIN queue |->
        IF queue[j].state = "started" THEN [queue[j] EXCEPT !.stale = TRUE] ELSE queue[j]]

\* a save of the document as changed: validate raises and nothing is written,
\* or the document is written
Saved(doc, changed, queue, clock) ==
    IF validate(changed)
    THEN [raised |-> FALSE, doc |-> save(changed, clock), queue |-> Outdate(queue)]
    ELSE [raised |-> TRUE, doc |-> doc, queue |-> queue]

\* frappe.enqueue: one more job; nothing is looked up, locked or cancelled
FreeJobs(queue) == {j \in DOMAIN queue : queue[j].state = "none"}
enqueue(queue) ==
    LET j == CHOOSE free \in FreeJobs(queue) : \A other \in FreeJobs(queue) : free <= other
    IN  [queue EXCEPT ![j] = [state |-> "queued", stale |-> FALSE]]

\* the jobs of the document that are queued or running
JobsInFlight(queue) == {j \in DOMAIN queue : queue[j].state \in {"queued", "started"}}

\* what job_call keeps of a call of a whitelisted method or a save of the form
JobCall(op, raised, status) == [op |-> op, raised |-> raised, status |-> status]

\* PolicyDocument.process_policy: no file or no policy type raises; otherwise the
\* status becomes Processing, is saved and committed, and a job is enqueued -
\* whatever the status was
process_policy(doc, queue, clock) ==
    IF ~doc.policy_file \/ doc.policy_type = NULL
    THEN [raised |-> TRUE, doc |-> doc, queue |-> queue, status |-> NULL]
    ELSE [raised |-> FALSE,
          doc |-> save([doc EXCEPT !.status = "Processing"], clock),
          queue |-> enqueue(Outdate(queue)),
          status |-> "Processing"]

ProcessPolicy ==
    /\ FreeJobs(job_queue) # {}
    /\ LET done == process_policy(job_doc, job_queue, job_clock)
       IN  /\ job_doc' = done.doc
           /\ job_queue' = done.queue
           /\ job_call' = JobCall("process_policy", done.raised, done.status)
    /\ UNCHANGED <<syncVars, ruleVars, validationVars, creationVars, settings_save,
                   registryVars, normVars, resolveVars, mapperVars, convertVars, job_clock>>

\* check_processing_timeout: a document in Processing for more than ten minutes
check_processing_timeout(doc, clock) ==
    doc.status = "Processing" /\ Age(doc, clock) > TenMinutes

\* process_policy_background up to the call of Claude Vision: the job loads the
\* document; process_policy_internal returns at once, with the status Failed saved,
\* when check_processing_timeout says so
process_policy_background(doc, queue, j, clock) ==
    IF check_processing_timeout(doc, clock)
    THEN [doc |-> save([doc EXCEPT !.status = "Failed", !.error_message = "error"], clock),
          queue |-> [Outdate(queue) EXCEPT ![j] = NoJob]]
    ELSE [doc |-> doc,
          queue |-> [queue EXCEPT ![j] = [state |-> "started", stale |-> FALSE]]]

JobStarts(j) ==
    /\ job_queue[j].state = "queued"
    /\ LET done == process_policy_background(job_doc, job_queue, j, job_clock)
       IN  /\ job_doc' = done.doc
           /\ job_queue' = done.queue
    /\ job_call' = NoJobCall
    /\ UNCHANGED <<syncVars, ruleVars, validationVars, creationVars, settings_save,
                   registryVars, normVars, resolveVars, mapperVars, convertVars, job_clock>>

\* process_policy_internal from the result of Claude Vision on: Completed with the
\* extracted fields, or Failed, is set on the copy the job loaded and saved. The
\* save of an outdated copy raises (TimestampMismatchError), and so do the saves
\* of the except blocks of process_policy_internal and process_policy_background,
\* which are made on the same copy: that job writes nothing.
process_policy_internal(doc, queue, j, success, clock) ==
    LET changed == IF success
                   THEN [doc EXCEPT !.status = "Completed", !.extracted_fields = j,
                                    !.error_message = ""]
                   ELSE [doc EXCEPT !.status = "Failed", !.error_message = "error"]
        written == Saved(doc, changed, queue, clock)
    IN  IF queue[j].stale THEN [doc |-> doc, queue |-> [queue EXCEPT ![j] = NoJob]]
        ELSE [doc |-> written.doc, queue |-> [written.queue EXCEPT ![j] = NoJob]]

JobFinishes(j, success) ==
    /\ job_queue[j].state = "started"
    /\ LET done == process_policy_internal(job_doc, job_queue, j, success, job_clock)
       IN  /\ job_doc' = done.doc
           /\ job_queue' = done.queue
    /\ job_call' = NoJobCall
    /\ UNCHANGED <<syncVars, ruleVars, validationVars, creationVars, settings_save,
                   registryVars, normVars, resolveVars, mapperVars, convertVars, job_clock>>

\* a job is lost: its worker is killed or the queue is emptied
JobLost(j) ==
    /\ job_queue[j].state \in {"queued", "started"}
    /\ job_queue' = [job_queue EXCEPT ![j] = NoJob]
    /\ job_call' = NoJobCall
    /\ UNCHANGED <<syncVars, ruleVars, validationVars, creationVars, settings_save,
                   registryVars, normVars, resolveVars, mapperVars, convertVars, job_doc,
                   job_clock>>

\* monitor_stuck_policy_documents: a document in Processing for more than five
\* minutes, its file and policy type still set, goes back to Draft and one more
\* job is enqueued for it; a document then still in Processing, for more than
\* thirty minutes, is marked Failed
monitor_stuck_policy_documents(doc, queue, clock) ==
    LET stuck == doc.status = "Processing" /\ Age(doc, clock) > FiveMinutes
        retried == stuck /\ doc.policy_file /\ doc.policy_type # NULL
        after == IF retried
                 THEN [doc |-> save([doc EXCEPT !.status = "Draft", !.error_message = ""], clock),
                       queue |-> enqueue(Outdate(queue))]
                 ELSE [doc |-> doc, queue |-> queue]
        very_old_stuck == after.doc.status = "Processing"
                            /\ Age(after.doc, clock) > ThirtyMinutes
    IN  IF very_old_stuck
        THEN [doc |-> save([after.doc EXCEPT !.status = "Failed", !.error_message = "error"],
                           clock),
              queue |-> Outdate(after.queue)]
        ELSE after

MonitorStuckPolicyDocuments ==
    /\ FreeJobs(job_queue) # {}
    /\ LET done == monitor_stuck_policy_documents(job_doc, job_queue, job_clock)
       IN  /\ job_doc' = done.doc
           /\ job_queue' = done.queue
           /\ job_doc' # job_doc
    /\ job_call' = NoJobCall
    /\ UNCHANGED <<syncVars, ruleVars, validationVars, creationVars, settings_save,
                   registryVars, normVars, resolveVars, mapperVars, convertVars, job_clock>>

\* the mutant resets a document of any status
reset_processing_status_any(doc, queue, clock) ==
    Saved(doc, [doc EXCEPT !.status = "Draft", !.error_message = ResetMessage], queue, clock)

\* PolicyDocument.reset_processing_status: Draft and the message for a document
\* in Processing, a validation error for any other
reset_processing_status(doc, queue, clock) ==
    IF doc.status = "Processing"
    THEN Saved(doc, [doc EXCEPT !.status = "Draft", !.error_message = ResetMessage],
               queue, clock)
    ELSE [raised |-> TRUE, doc |-> doc, queue |-> queue]

ResetProcessingStatus ==
    /\ LET done == reset_processing_status(job_doc, job_queue, job_clock)
       IN  /\ job_doc' = done.doc
           /\ job_queue' = done.queue
           /\ job_call' = JobCall("reset_processing_status", done.raised, NULL)
    /\ UNCHANGED <<syncVars, ruleVars, validationVars, creationVars, settings_save,
                   registryVars, normVars, resolveVars, mapperVars, convertVars, job_clock>>

\* ai_extract_fields_from_ocr: with OCR text stored and an extraction that
\* succeeds the extracted fields are replaced and saved; otherwise the call
\* returns a failure and writes nothing
ai_extract_fields_from_ocr(doc, queue, raw_ocr_text, success, clock) ==
    IF raw_ocr_text /\ doc.policy_type # NULL /\ success
    THEN Saved(doc, [doc EXCEPT !.extracted_fields = ReExtracted], queue, clock)
    ELSE [raised |-> FALSE, doc |-> doc, queue |-> queue]

AiExtractFieldsFromOcr(raw_ocr_text, success) ==
    /\ LET done == ai_extract_fields_from_ocr(job_doc, job_queue, raw_ocr_text, success,
                                              job_clock)
       IN  /\ job_doc' = done.doc
           /\ job_queue' = done.queue
           /\ job_call' = JobCall("ai_extract_fields_from_ocr", done.raised, NULL)
    /\ UNCHANGED <<syncVars, ruleVars, validationVars, creationVars, settings_save,
                   registryVars, normVars, resolveVars, mapperVars, convertVars, job_clock>>

\* PolicyDocument.process_with_ai, the extraction within the request: no file or
\* no policy type raises; otherwise Processing is saved and committed, and then
\* Completed with the extracted fields, or Failed
process_with_ai(doc, queue, success, clock) ==
    LET processing == save([doc EXCEPT !.status = "Processing"], clock)
        changed == IF success
                   THEN [processing EXCEPT !.status = "Completed",
                                           !.extracted_fields = ReExtracted,
                                           !.error_message = ""]
                   ELSE [processing EXCEPT !.status = "Failed", !.error_message = "error"]
    IN  IF ~doc.policy_file \/ doc.policy_type = NULL
        THEN [raised |-> TRUE, doc |-> doc, queue |-> queue]
        ELSE Saved(processing, changed, Outdate(queue), clock)

ProcessWithAi(success) ==
    /\ LET done == process_with_ai(job_doc, job_queue, success, job_clock)
       IN  /\ job_doc' = done.doc
           /\ job_queue' = done.queue
           /\ job_call' = JobCall("process_with_ai", done.raised, NULL)
    /\ UNCHANGED <<syncVars, ruleVars, validationVars, creationVars, settings_save,
                   registryVars, normVars, resolveVars, mapperVars, convertVars, job_clock>>

\* a user saves the form with a status and a policy type, the extracted fields
\* emptied or left as they are
SaveDocument(status, policy_type, emptied) ==
    /\ LET changed == [job_doc EXCEPT !.status = status, !.policy_type = policy_type,
                                      !.extracted_fields = IF emptied THEN 0 ELSE @]
           done == Saved(job_doc, changed, job_queue, job_clock)
       IN  /\ changed # job_doc
           /\ job_doc' = done.doc
           /\ job_queue' = done.queue
           /\ job_call' = JobCall("save", done.raised, status)
    /\ UNCHANGED <<syncVars, ruleVars, validationVars, creationVars, settings_save,
                   registryVars, normVars, resolveVars, mapperVars, convertVars, job_clock>>

\* a user saves the document with the file removed or attached again
SavePolicyFile(attached) ==
    /\ job_doc.policy_file # attached
    /\ LET done == Saved(job_doc, [job_doc EXCEPT !.policy_file = attached], job_queue,
                         job_clock)
       IN  /\ job_doc' = done.doc
           /\ job_queue' = done.queue
           /\ job_call' = JobCall("save", done.raised, job_doc.status)
    /\ UNCHANGED <<syncVars, ruleVars, validationVars, creationVars, settings_save,
                   registryVars, normVars, resolveVars, mapperVars, convertVars, job_clock>>

\* five minutes pass; once the clock shows MaxClock the stamp of the document
\* moves back instead
JobClockTick ==
    /\ job_clock < MaxClock \/ job_doc.modified > 0
    /\ IF job_clock < MaxClock
       THEN job_clock' = job_clock + 1 /\ job_doc' = job_doc
       ELSE job_clock' = job_clock /\ job_doc' = [job_doc EXCEPT !.modified = @ - 1]
    /\ job_call' = NoJobCall
    /\ UNCHANGED <<syncVars, ruleVars, validationVars, creationVars, settings_save,
                   registryVars, normVars, resolveVars, mapperVars, convertVars, job_queue>>

InitJobs ==
    /\ SyncIdle
    /\ motor_validation_rules = RulesPayloadFields
    /\ health_validation_rules = RulesPayloadFields
    /\ validation_enabled = TRUE
    /\ ValidationIdle
    /\ CreationIdle
    /\ OthersIdle

\* the jobs of a document and what starts, retries and loses them
NextJobs ==
    \/ ProcessPolicy
    \/ \E j \in Jobs : JobStarts(j)
    \/ \E j \in Jobs, success \in BOOLEAN : JobFinishes(j, success)
    \/ \E j \in Jobs : JobLost(j)
    \/ MonitorStuckPolicyDocuments
    \/ ResetProcessingStatus
    \/ \E attached \in BOOLEAN : SavePolicyFile(attached)
    \/ JobClockTick

SpecJobs == InitJobs /\ [][NextJobs]_vars

\* the scheduler runs the monitor every few minutes and the workers take and end
\* every job that stays in the queue; time passes; users call when they like
SpecJobsFair ==
    /\ SpecJobs
    /\ WF_vars(JobClockTick)
    /\ WF_vars(MonitorStuckPolicyDocuments)
    /\ \A j \in Jobs : WF_vars(JobStarts(j))
    /\ \A j \in Jobs : WF_vars(\E success \in BOOLEAN : JobFinishes(j, success))

\* the calls and saves of the form of a document and the runs of its jobs, with
\* no time passing
NextDocument ==
    \/ ProcessPolicy
    \/ \E j \in Jobs : JobStarts(j)
    \/ \E j \in Jobs, success \in BOOLEAN : JobFinishes(j, success)
    \/ ResetProcessingStatus
    \/ \E success \in BOOLEAN : ProcessWithAi(success)
    \/ \E raw_ocr_text \in BOOLEAN, success \in BOOLEAN :
          AiExtractFieldsFromOcr(raw_ocr_text, success)
    \/ \E status \in Statuses, policy_type \in {NULL, "Motor"}, emptied \in BOOLEAN :
          SaveDocument(status, policy_type, emptied)
    \/ \E attached \in BOOLEAN : SavePolicyFile(attached)

SpecDocument == InitJobs /\ [][NextDocument]_vars

\* ============================================================ claim C18
\* C18 as stated: at most one processing job of a Policy Document is in flight
\* (queued or running) at any time, whatever process_policy calls, job runs and
\* re-enqueues by monitor_stuck_policy_documents have happened.
C18_Original == Cardinality(JobsInFlight(job_queue)) <= 1

\* ============================================================ claim C16
\* C16: a call of create_policy_record that raises - for its arguments, a
\* missing document, extraction or field mapping, an extraction that is no
\* JSON object, or a failing insert of the policy or save of the Policy
\* Document - commits nothing and leaves nothing uncommitted behind: the
\* policies and the links of the Policy Document are, in the request and in
\* the database, the committed ones of before the call.
C16_FailureRollsBack ==
    [][(create_call'.op = "create_policy_record" /\ create_call'.kind = "raised") =>
          \A policy_document_name \in {DocumentName, MissingName, ""},
             policy_type \in {"Motor", "health", "Marine", NULL}, fault \in Faults :
             CreatePolicyRecord(policy_document_name, policy_type, fault)
                 => (create_db' = create_db /\ create_tx' = create_db)]_vars

\* a call for a document with an extraction and a field mapping has raised, so
\* at the insert or at the save of the link, and no policy exists
C16_Witness ==
    /\ create_call.op = "create_policy_record"
    /\ create_call.kind = "raised"
    /\ create_call.policy_document_name = DocumentName
    /\ create_call.policy_type = "health"
    /\ field_mappings.health
    /\ create_db.policy_document.extracted_fields # ""
    /\ safe_parse_json(create_db.policy_document.extracted_fields) = "dict"
    /\ create_tx.health = 0 /\ create_tx.policy_document.health_policy = 0
    /\ create_db = create_tx

\* ============================================================ claim C17
\* the policy type a creation request on the Policy Document asks for
RequestedType(policy_document) ==
    IF policy_document.extraction_policy_type # NULL
    THEN LowerPolicyType(policy_document.extraction_policy_type)
    ELSE LowerPolicyType(policy_document.policy_type)

DateParts == {<<"3">>, <<"0", "3">>, <<"1", "2">>, <<"1", "3">>, <<"1", "5">>, <<"3", "0">>, <<"3", "1">>, <<"0">>, <<"0", "2">>, <<"2", "9">>}
DateYears == {<<"2", "0", "2", "4">>, <<"2", "0", "2", "3">>}

\* values given for a field of any type
AnyValues ==
    {PyNone, PyInt(0), PyInt(7), PyBool(TRUE), PyBool(FALSE)}
        \cup {PyText(t) : t \in {<<>>, <<"N", "A">>, <<" ", "n", "/", "a", " ">>, <<"a", "b", "c">>}}

\* texts given for a Date or a Datetime field
DateValues ==
    {PyText(d \o <<"/">> \o mo \o <<"/">> \o y) : d \in DateParts, mo \in DateParts, y \in DateYears}
        \cup {PyText(t) : t \in {<<"2", "0", "2", "4", "-", "0", "3", "-", "1", "5">>, <<"2", "0", "2", "4", "-", "1", "5", "-", "0", "3">>, <<"1", "5", "/", "0", "3", "/", "2", "0", "2", "4", " ">>, <<"/", "3", "/", "2", "0", "2", "4">>}}

\* texts given for an Int or a Float field
NumberValues ==
    {PyText(t) : t \in {<<"5", " ", "s", "e", "a", "t", "e", "r", " ", "c", "a", "p", "a", "c", "i", "t", "y">>, <<"5">>, <<" ", "4", "2", " ">>, <<"1", "2", ".", "7">>, <<"-", "3">>, <<"4", ",", "1", "5", "6">>, <<"4", ",", "1", "5", "6", ",", "2", "5", "0", ".", "0", "0">>, <<"₹", "4", ",", "1", "5", "6", ",", "2", "5", "0", ".", "0", "0">>, <<"4", "1", "5", "6", "2", "5", "0", ".", "0", "0", "/", "-">>, <<"R", "s", ".", " ", "5", "0", "0">>, <<"1", "2", ".", "5", "0">>}}

\* texts given for a Select or a Data field
OptionValues ==
    {PyText(t) : t \in {<<"M", "r", ".">>, <<"m", "r", ".">>, <<"M", "r", "s">>, <<"D", "o", "c", "t", "o", "r">>, <<"p", "e", "t", "r", "o", "l">>, <<"D", "i", "e">>, <<"C", "N", "G", " ", "f", "i", "t", "t", "e", "d">>, <<"x">>}}

\* the calls of the converter: a field name and a raw value
ConvertInputs ==
    [field_name : DOMAIN Meta \cup {NoteField}, value : AnyValues]
        \cup [field_name : {StartDateField, IssuedOnField}, value : DateValues]
        \cup [field_name : {CcField, PremiumField}, value : NumberValues]
        \cup [field_name : {CustomerTitleField, FuelField, CustomerCodeField, IsNewField},
              value : OptionValues]

\* convert_field_value is called
ConvertFieldValue ==
    /\ convert_call.op = "none"
    /\ convert_call.field_name # <<>>
    /\ convert_call' = [convert_call EXCEPT
                           !.op = "convert_field_value",
                           !.result = convert_field_value(convert_call.field_name,
                                                          convert_call.value)]
    /\ UNCHANGED <<syncVars, ruleVars, validationVars, creationVars, settings_save,
                   registryVars, normVars, resolveVars, mapperVars, jobVars>>

\* either a field and a raw value are at hand for the converter, or an
\* extraction and a field mapping for the mapper that calls it
InitConvert ==
    /\ SyncIdle
    /\ motor_validation_rules = RulesPayloadFields
    /\ health_validation_rules = RulesPayloadFields
    /\ validation_enabled = TRUE
    /\ ValidationIdle
    /\ CreationIdle
    /\ SettingsSaveIdle
    /\ JobsIdle
    /\ RegistryIdle
    /\ NormalizerIdle
    /\ ResolveIdle
    /\ \/ /\ MapperIdle
          /\ \E input \in ConvertInputs :
                convert_call = [op |-> "none", field_name |-> input.field_name,
                                value |-> input.value, result |-> PyNone]
       \/ /\ ConverterIdle
          /\ \E parsed_data \in RawBags, field_mapping \in FieldMappings :
                mapper_call = [op |-> "none", parsed_data |-> parsed_data,
                               field_mapping |-> field_mapping,
                               before |-> EmptyDict, after |-> EmptyDict,
                               mapped_count |-> 0, unmapped_fields |-> <<>>]

NextConvert ==
    \/ ConvertFieldValue
    \/ MapFields

SpecConvert == InitConvert /\ [][NextConvert]_vars

\* ============================================================ claim C21
\* the date a text D/M/YYYY names when read day first, else month first, else none
IsoDate(year, month, day) == year \o <<"-">> \o zfill(month) \o <<"-">> \o zfill(day)
DayFirstThenMonthFirst(text) ==
    LET parts == split(strip(text), "/")
        day_first == IsoDate(parts[3], parts[2], parts[1])
        month_first == IsoDate(parts[3], parts[1], parts[2])
    IN  IF IsIsoDate(day_first) THEN day_first
        ELSE IF IsIsoDate(month_first) THEN month_first
        ELSE <<>>

\* a text of three parts divided by slashes
IsSlashDate(value) == value.py = "str" /\ Len(split(strip(value.s), "/")) = 3

\* C21 as stated: a slash-separated three-part text given for a Date (Datetime)
\* field converts to the date (midnight of the date) it names as day/month/year,
\* to the date it names as month/day/year when it names none as day/month/year,
\* and to None only when it names none in either order.
C21_Original ==
    (/\ convert_call.op = "convert_field_value"
     /\ convert_call.field_name \in {StartDateField, IssuedOnField}
     /\ IsSlashDate(convert_call.value))
        => LET named == DayFirstThenMonthFirst(convert_call.value.s)
           IN  convert_call.result =
                  IF named = <<>> THEN PyNone
                  ELSE IF convert_call.field_name = StartDateField THEN PyDate(named)
                  ELSE PyDatetime(named \o Midnight)

\* ============================================================ claim C22
\* the text without its currency sign, its thousands separators and a closing "/-"
Undecorated(text) ==
    LET t == strip(text)
        open == IF Len(t) >= 2 /\ SubSeq(t, Len(t) - 1, Len(t)) = <<"/", "-">>
                THEN SubSeq(t, 1, Len(t) - 2) ELSE t
    IN  SelectSeq(open, LAMBDA c : c \notin {",", "₹"})

\* C22 as stated: a text given for an Int field converts to the number its
\* digits spell, None when it has no digit; a text given for a Float field
\* converts to the number it spells once currency sign, thousands separators
\* and a closing "/-" are removed, None when that is no number.
C22_Original ==
    (/\ convert_call.op = "convert_field_value"
     /\ convert_call.field_name \in {CcField, PremiumField}
     /\ convert_call.value.py = "str")
        => LET digits == SelectSeq(convert_call.value.s, IsDigit)
               amount == Undecorated(convert_call.value.s)
           IN  convert_call.result =
                  IF convert_call.field_name = CcField
                  THEN (IF digits = <<>> THEN PyNone ELSE PyInt(Number(digits)))
                  ELSE (IF IsDecimalText(amount) THEN PyFloat(HundredthsValue(amount))
                        ELSE PyNone)

\* ============================================================ claim C23
\* the Python type of the values a field of the type holds
FieldValueType(fieldtype) ==
    CASE fieldtype = "Date" -> "date"
      [] fieldtype = "Datetime" -> "datetime"
      [] fieldtype = "Float" -> "float"
      [] fieldtype = "Int" -> "int"
      [] fieldtype = "Check" -> "bool"
      [] OTHER -> "str"

\* C23: convert_field_value returns, for every field of the doctype and every
\* raw value - text, number, boolean or None -, None or a value of the type of
\* the field, and raises nothing; and in a run of the field mapper every entry
\* with a value whose conversion is None is recorded as unmapped, while every
\* other entry of the extraction is still treated: a convertible value of a
\* mapped key is on the record afterwards unless a later entry replaced it.
C23_ConversionIsTotal ==
    /\ (convert_call.op = "convert_field_value" /\ convert_call.field_name \in DOMAIN Meta)
          => convert_call.result.py \in
                {"NoneType", FieldValueType(Meta[convert_call.field_name].fieldtype)}
    /\ mapper_call.op = "map_fields_dynamically"
          => \A i \in 1..Len(mapper_call.parsed_data) :
                LET entry == mapper_call.parsed_data[i]
                    hit == lookup(mapper_call.field_mapping, entry.key)
                    Replaced(j) ==
                        LET later == mapper_call.parsed_data[j]
                            other == lookup(mapper_call.field_mapping, later.key)
                        IN  /\ ~IsBlank(later.value)
                            /\ other.found /\ other.field = hit.field
                            /\ convert_field_value(other.field, later.value).py # "NoneType"
                IN  (~IsBlank(entry.value) /\ hit.found)
                       => IF convert_field_value(hit.field, entry.value).py = "NoneType"
                          THEN \E k \in 1..Len(mapper_call.unmapped_fields) :
                                  mapper_call.unmapped_fields[k] = entry.key
                          ELSE \/ \E j \in (i + 1)..Len(mapper_call.parsed_data) : Replaced(j)
                               \/ mapper_call.after[hit.field].py # "NoneType"

\* C23 witness: the mapper ran on an extraction whose first value, NA, converts
\* to None and whose second value converts; the first key is unmapped and the
\* second value is on the record.
C23_Witness ==
    /\ mapper_call.op = "map_fields_dynamically"
    /\ mapper_call.parsed_data = <<[key |-> CcField, value |-> PyText(<<"N", "A">>)],
                                   [key |-> CustomerCodeField, value |-> PyText(<<"7">>)]>>
    /\ mapper_call.unmapped_fields = <<CcField>>
    /\ mapper_call.mapped_count = 1
    /\ mapper_call.after[CustomerCodeField] = PyText(<<"7">>)

\* ============================================================ claim C26
\* C26 as stated: a stored Policy Document that holds extracted fields and the
\* policy type they were generated for has that type as its policy_type,
\* whatever saves of the document were made.
C26_Original ==
    (/\ create_db.policy_document.extracted_fields \notin {NULL, ""}
     /\ create_db.policy_document.extraction_policy_type # NULL)
        => create_db.policy_document.policy_type
              = create_db.policy_document.extraction_policy_type

\* ============================================================ claim C24
\* C24: reset_processing_status moves a Policy Document to status Draft, with
\* the error_message "Processing was reset by user", only when its status is
\* Processing; called in any other status (Draft, Completed, Failed) it raises and
\* leaves the document as it was.
C24_ResetOnlyFromProcessing ==
    [][job_call'.op = "reset_processing_status"
          => IF job_doc.status = "Processing"
             THEN /\ ~job_call'.raised
                  /\ job_doc'.status = "Draft"
                  /\ job_doc'.error_message = ResetMessage
             ELSE /\ job_call'.raised
                  /\ job_doc' = job_doc]_vars

\* reset_processing_status was called on a Completed document and raised
C24_Witness ==
    /\ job_call.op = "reset_processing_status"
    /\ job_call.raised
    /\ job_doc.status = "Completed"
    /\ job_doc.error_message # ResetMessage

C27_Original ==
    [][job_call'.op = "process_policy"
          => IF job_doc.policy_file /\ job_doc.policy_type # NULL
             THEN /\ ~job_call'.raised
                  /\ job_call'.status = "Processing"
                  /\ job_doc'.status = "Processing"
                  /\ job_doc'.extraction_policy_type = job_doc.policy_type
                  /\ Cardinality(JobsInFlight(job_queue'))
                        = Cardinality(JobsInFlight(job_queue)) + 1
             ELSE /\ job_call'.raised
                  /\ job_doc' = job_doc
                  /\ job_queue' = job_queue]_vars

\* ============================================================ claim C30
\* C30 as stated: every run of the background job ends with the document in
\* status Completed or Failed - on AI success, AI failure, the timeout check and
\* any exception - and, the monitor and the job queue being scheduled fairly, a
\* document in status Processing eventually leaves it.
C30_Original ==
    /\ [][\A j \in Jobs :
            ((\E success \in BOOLEAN : JobFinishes(j, success))
                \/ (JobStarts(j) /\ job_queue'[j] = NoJob))
               => job_doc'.status \in {"Completed", "Failed"}]_vars
    /\ (job_doc.status = "Processing") ~> (job_doc.status # "Processing")

\* ============================= the alias registry and the policy operations
\* MotorPolicy / HealthPolicy.populate_fields_from_policy_document
\* (policies/doctype/motor_policy/motor_policy.py, health_policy.py) and
\* PolicyCreationService.create_policy_record, as far as the alias registry and
\* its cache go: the fields set on the policy record are the field mapper's.

\* populate_fields_from_policy_document: without extracted fields it returns a
\* failure at once; otherwise refresh_field_mappings is called on the settings
\* and committed, and the mapping of the policy type is then read through the
\* cache
populate_fields_from_policy_document(maps, cache, policy_type, extracted_fields) ==
    IF ~extracted_fields THEN [maps |-> maps, cache |-> cache, success |-> FALSE]
    ELSE LET refreshed == refresh_field_mappings(maps).maps
             got == get_cached_field_mapping(cache, refreshed, policy_type)
         IN  [maps |-> refreshed, cache |-> got.cache, success |-> got.mapping # EmptyDict]

PopulateFieldsFromPolicyDocument(policy_type, extracted_fields) ==
    /\ LET done == populate_fields_from_policy_document(alias_maps, mapping_cache,
                                                        policy_type, extracted_fields)
       IN  /\ alias_maps' = done.maps
           /\ mapping_cache' = done.cache
           /\ alias_call' = [op |-> "populate_fields_from_policy_document",
                             raised |-> ~done.success]
    /\ resolve_call' = NoResolve
    /\ UNCHANGED <<syncVars, ruleVars, validationVars, creationVars, settings_save, normVars,
                   alias_ops, mapperVars, jobVars, convertVars>>

\* create_policy_record reads the mapping of the policy type through the cache
\* and throws when there is none; it writes nothing to the settings
GetFieldMappingForCreation(policy_type) ==
    /\ LET got == get_cached_field_mapping(mapping_cache, alias_maps, policy_type)
       IN  /\ mapping_cache' = got.cache
           /\ alias_call' = [op |-> "create_policy_record", raised |-> got.mapping = EmptyDict]
    /\ resolve_call' = NoResolve
    /\ UNCHANGED <<syncVars, ruleVars, validationVars, creationVars, settings_save, normVars,
                   alias_maps, alias_ops, mapperVars, jobVars, convertVars>>

NextAliases ==
    \/ RefreshFieldMappings
    \/ \E policy_type \in {"Motor", "health"},
          canonical_field \in {<<"g", "s", "t">>, <<"c", "c">>},
          alias \in {<<"V", "A", "T">>, <<"T", "a", "x">>} :
          AddAlias(policy_type, canonical_field, alias)
    \/ \E policy_type \in {"motor", "Health"}, data \in BulkPayloads :
          BulkAddAliases(policy_type, data)
    \/ \E policy_type \in {"Motor", "Health"}, extracted_fields \in BOOLEAN :
          PopulateFieldsFromPolicyDocument(policy_type, extracted_fields)
    \/ \E policy_type \in {"Motor", "Health"} : GetFieldMappingForCreation(policy_type)
    \/ \E cache_key \in {"motor", "health"} : CacheExpires(cache_key)

SpecAliases == InitRegistry /\ [][NextAliases]_vars

\* ============================================================ claim C28
\* C28 as stated: policy creation and populate_fields_from_policy_document on a
\* Motor or Health policy leave every alias of the stored Motor and Health alias
\* maps in place, resolving to the canonical field it resolved to before.
C28_Original ==
    [][alias_call'.op \in {"populate_fields_from_policy_document", "create_policy_record"}
          => \A container \in {"motor", "health"} :
                \A alias \in DOMAIN alias_maps[container] :
                    /\ alias \in DOMAIN alias_maps'[container]
                    /\ alias_maps'[container][alias] = alias_maps[container][alias]
                    /\ lookup(alias_maps'[container], alias).field
                          = lookup(alias_maps[container], alias).field]_vars

\* ===================================== the rule tables the patches write
\* patches/v1_0: setup_saiba_validation_settings fills both tables when they are
\* empty, update_saiba_validation_rules replaces both, update_motor_validation_rules
\* replaces the Motor table; a rule is Rule(saiba_field, doctype_field, category,
\* validation_type, is_required).

\* the Motor rules of setup_saiba_validation_settings
SetupMotorRules ==
    << Rule("custCode", "customer_code", "Customer & Insurer", "integer_nonzero", TRUE),
       Rule("insBranchCode", "insurer_branch_code", "Customer & Insurer", "integer", TRUE),
       Rule("policyNo", "policy_no", "Policy Information", "string", TRUE),
       Rule("policyType", "policy_type", "Policy Information", "string", TRUE),
       Rule("vehicleNo", "vehicle_no", "Vehicle Information", "string", TRUE),
       Rule("sumInsured", "sum_insured", "Financial", "integer_positive", TRUE),
       Rule("issuenceDate", "policy_issuance_date", "Dates", "date", TRUE),
       Rule("startDate", "policy_start_date", "Dates", "date", TRUE),
       Rule("expiryDate", "policy_expiry_date", "Dates", "date", TRUE) >>

\* the Health rules of setup_saiba_validation_settings
SetupHealthRules ==
    << Rule("custCode", "customer_code", "Customer & Insurer", "integer_nonzero", TRUE),
       Rule("policyNo", "policy_no", "Policy Information", "string", TRUE),
       Rule("policyType", "policy_type", "Policy Information", "string", TRUE),
       Rule("sumInsured", "sum_insured", "Financial", "integer_positive", TRUE),
       Rule("issuenceDate", "policy_issuance_date", "Dates", "date", TRUE),
       Rule("startDate", "policy_start_date", "Dates", "date", TRUE),
       Rule("expiryDate", "policy_expiry_date", "Dates", "date", TRUE),
       Rule("insured1Name", "insured_1_name", "Insured Persons", "string", TRUE) >>

\* the Motor rules of update_saiba_validation_rules
UpdatedMotorRules ==
    << Rule("custCode", "customer_code", "Customer & Insurer", "integer_nonzero", TRUE),
       Rule("insBranchCode", "insurer_branch_code", "Customer & Insurer", "integer", TRUE),
       Rule("posPolicy", "pos_misp_ref", "Policy Information", "yes_no", TRUE),
       Rule("bizType", "biz_type", "Policy Information", "new_renew", TRUE),
       Rule("policyType", "policy_type", "Policy Information", "string", TRUE),
       Rule("policyNo", "policy_no", "Policy Information", "string", TRUE),
       Rule("isRenewable", "is_renewable", "Policy Information", "yes_no", TRUE),
       Rule("newRenewal", "new_renewal", "Policy Information", "new_renew", TRUE),
       Rule("issuenceDate", "policy_issuance_date", "Dates", "date", TRUE),
       Rule("startDate", "policy_start_date", "Dates", "date", TRUE),
       Rule("expiryDate", "policy_expiry_date", "Dates", "date", TRUE),
       Rule("vehicleNo", "vehicle_no", "Vehicle Information", "string", TRUE),
       Rule("make", "make", "Vehicle Information", "string", TRUE),
       Rule("model", "model", "Vehicle Information", "string", TRUE),
       Rule("variant", "variant", "Vehicle Information", "string", TRUE),
       Rule("yearOfMan", "year_of_man", "Vehicle Information", "integer_positive", TRUE),
       Rule("chasisNo", "chasis_no", "Vehicle Information", "string", TRUE),
       Rule("engineNo", "engine_no", "Vehicle Information", "string", TRUE),
       Rule("cc", "cc", "Vehicle Information", "string", TRUE),
       Rule("fuel", "fuel", "Vehicle Information", "string", TRUE),
       Rule("rtoCode", "rto_code", "Vehicle Information", "string", TRUE),
       Rule("ncb", "ncb", "Financial", "integer", TRUE),
       Rule("sumInsured", "sum_insured", "Financial", "integer", TRUE),
       Rule("netODPremium", "net_od_premium", "Financial", "integer", TRUE),
       Rule("tpPremium", "tp_premium", "Financial", "integer", TRUE),
       Rule("gst", "gst", "Financial", "integer", TRUE),
       Rule("paymentMode", "payment_mode_1", "Financial", "string", TRUE),
       Rule("bankName", "bank_name", "Financial", "string", TRUE),
       Rule("remarks", "policy_enquiry_remarks", "Policy Information", "string", TRUE) >>

\* the Health rules of update_saiba_validation_rules
UpdatedHealthRules ==
    << Rule("customerCode", "customer_code", "Customer & Insurer", "integer_nonzero", TRUE),
       Rule("insurerBranchCode", "insurer_branch_code", "Customer & Insurer", "integer", TRUE),
       Rule("posPolicy", "pos_policy", "Policy Information", "yes_no", TRUE),
       Rule("policyBizType", "biz_type", "Policy Information", "new_renew", TRUE),
       Rule("policyType", "policy_type", "Policy Information", "string", TRUE),
       Rule("policyNo", "policy_no", "Policy Information", "string", TRUE),
       Rule("planName", "plan_name", "Policy Information", "string", TRUE),
       Rule("isRenewable", "is_renewable", "Policy Information", "yes_no", TRUE),
       Rule("prevPolicy", "prev_policy", "Policy Information", "string", TRUE),
       Rule("policyIssuanceDate", "policy_issuance_date", "Dates", "date", TRUE),
       Rule("policyStartDate", "policy_start_date", "Dates", "date", TRUE),
       Rule("policyExpiryDate", "policy_expiry_date", "Dates", "date", TRUE),
       Rule("insured1Name", "insured_1_name", "Insured Persons", "string", TRUE),
       Rule("insured1DOB", "insured_1_dob", "Insured Persons", "date", TRUE),
       Rule("insured1Gender", "insured_1_gender", "Insured Persons", "string", TRUE),
       Rule("insured1Relation", "insured_1_relation", "Insured Persons", "string", TRUE),
       Rule("sumInsured", "sum_insured", "Financial", "integer", TRUE),
       Rule("netODPremium", "net_od_premium", "Financial", "integer", TRUE),
       Rule("gst", "gst_tax_percent", "Financial", "integer", TRUE),
       Rule("stampDuty", "stamp_duty", "Financial", "integer", TRUE),
       Rule("paymentMode", "payment_mode", "Financial", "string", TRUE),
       Rule("bankName", "bank_name", "Financial", "string", TRUE),
       Rule("paymentTransactionNo", "payment_transaction_no", "Financial", "string", TRUE),
       Rule("remarks", "remarks", "Policy Information", "string", TRUE),
       Rule("policyStatus", "policy_status", "Policy Information", "string", TRUE) >>

\* the Motor rules of update_motor_validation_rules
MandatoryMotorRules ==
    << Rule("custCode", "customer_code", "Customer & Insurer", "integer_nonzero", TRUE),
       Rule("insBranchCode", "insurer_branch_code", "Customer & Insurer", "integer", TRUE),
       Rule("issuenceDate", "policy_issuance_date", "Dates", "date", TRUE),
       Rule("busBrokDate", "bus_brok_date", "Dates", "date", TRUE),
       Rule("startDate", "policy_start_date", "Dates", "date", TRUE),
       Rule("expiryDate", "policy_expiry_date", "Dates", "date", TRUE),
       Rule("policyReceivedDate", "receive_date", "Dates", "date", TRUE),
       Rule("posPolicy", "pos_misp_ref", "Policy Information", "yes_no", TRUE),
       Rule("policyType", "policy_type", "Policy Information", "string", TRUE),
       Rule("department", "department", "Policy Information", "string", TRUE),
       Rule("policyNo", "policy_no", "Policy Information", "string", TRUE),
       Rule("isRenewable", "is_renewable", "Policy Information", "yes_no", TRUE),
       Rule("newRenewal", "new_renewal", "Policy Information", "new_renew", TRUE),
       Rule("prevPolicy", "prev_policy_no", "Policy Information", "string", TRUE),
       Rule("remarks", "policy_enquiry_remarks", "Policy Information", "string", TRUE),
       Rule("policyStatus", "policy_status_na", "Policy Information", "string", TRUE),
       Rule("vehicleNo", "vehicle_no", "Vehicle Information", "string", TRUE),
       Rule("make", "make", "Vehicle Information", "string", TRUE),
       Rule("model", "model", "Vehicle Information", "string", TRUE),
       Rule("variant", "variant", "Vehicle Information", "string", TRUE),
       Rule("registrationDate", "registration_date", "Vehicle Information", "date", TRUE),
       Rule("yearOfMan", "year_of_man", "Vehicle Information", "integer_positive", TRUE),
       Rule("chasisNo", "chasis_no", "Vehicle Information", "string", TRUE),
       Rule("engineNo", "engine_no", "Vehicle Information", "string", TRUE),
       Rule("cc", "cc", "Vehicle Information", "string", TRUE),
       Rule("fuel", "fuel", "Vehicle Information", "string", TRUE),
       Rule("rtoCode", "rto_code", "Vehicle Information", "string", TRUE),
       Rule("vehicleCategory", "category", "Vehicle Information", "gcv_pcv_misc", TRUE),
       Rule("passengerGVW", "passenger_gvw", "Vehicle Information", "string", TRUE),
       Rule("ncb", "ncb", "Financial", "integer", TRUE),
       Rule("odd", "odd", "Financial", "integer", TRUE),
       Rule("sumInsured", "sum_insured", "Financial", "integer_positive", TRUE),
       Rule("netODPremium", "net_od_premium", "Financial", "integer", TRUE),
       Rule("tpPremium", "tp_premium", "Financial", "integer", TRUE),
       Rule("lpodPremium", "lpod_premium", "Financial", "integer", TRUE),
       Rule("gst", "gst", "Financial", "integer", TRUE),
       Rule("stampDuty", "stamp_duty", "Financial", "integer", TRUE),
       Rule("paymentMode", "payment_mode_1", "Financial", "string", TRUE),
       Rule("bankName", "bank_name", "Financial", "string", TRUE),
       Rule("paymentTranNo", "payment_tran_no", "Financial", "string", TRUE) >>

\* the two tables of the SAIBA Validation Settings
RuleTables(motor, health) == [motor |-> motor, health |-> health]

\* setup_saiba_validation_settings.execute: nothing when a table has rules
setup_saiba_validation_settings(tables) ==
    IF tables.motor # <<>> \/ tables.health # <<>> THEN tables
    ELSE RuleTables(SetupMotorRules, SetupHealthRules)

\* update_saiba_validation_rules.execute: both tables are cleared and filled
update_saiba_validation_rules(tables) == RuleTables(UpdatedMotorRules, UpdatedHealthRules)

\* update_motor_validation_rules.execute: the Motor table is cleared and filled
update_motor_validation_rules(tables) == [tables EXCEPT !.motor = MandatoryMotorRules]

\* the tables of a site on which some of the patches have run, in some order
PatchRuns(tables) ==
    {setup_saiba_validation_settings(tables), update_saiba_validation_rules(tables),
     update_motor_validation_rules(tables)}

ShippedRuleTables ==
    LET none == RuleTables(<<>>, <<>>)
        once == PatchRuns(none)
        twice == UNION {PatchRuns(tables) : tables \in once}
        thrice == UNION {PatchRuns(tables) : tables \in twice}
    IN  {none} \cup once \cup twice \cup thrice

\* a sync on a site with the rule tables of the patches, no token stored and
\* saiba_sync_required_only on
InitShippedSync ==
    /\ settings = [SettingsNormal EXCEPT !.saiba_sync_required_only = TRUE]
    /\ \E tables \in ShippedRuleTables :
          /\ motor_validation_rules = tables.motor
          /\ health_validation_rules = tables.health
    /\ validation_enabled = TRUE
    /\ ValidationIdle
    /\ CreationIdle
    /\ OthersIdle
    /\ \E dt \in Doctypes :
          tx = [docs |-> [d \in Doctypes |-> IF d = dt THEN NewPolicy ELSE NoDoc],
                saiba_token |-> NULL, saiba_token_expiry |-> NoTime]
    /\ db = tx
    /\ now = 0
    /\ ticks = 0
    /\ pc = "idle"
    /\ cur = "Motor Policy"
    /\ payload = {}
    /\ bearer = NULL
    /\ http_log = <<>>
    /\ http_response = NoResponse
    /\ result = NoResult

SpecShippedSync == InitShippedSync /\ [][NextSync]_vars

\* ============================================================ claim C29
\* C29 as stated: with saiba_sync_required_only on and required rules for the
\* policy type, the payload of a sync is the built payload cut down to the
\* fields of the required rules, and with the rule tables of the patches each
\* required rule's saiba_field is a key of the built payload, so each required
\* field is in the payload; with the setting off or no required rule the payload
\* is the built payload.
C29_Original ==
    pc \in {"token1", "post1", "reauth", "post2"} =>
        LET built == IF cur = "Motor Policy" THEN _build_motor_policy_payload
                     ELSE _build_health_policy_payload
            required_fields == _get_required_saiba_fields(cur, motor_validation_rules,
                                                          health_validation_rules)
        IN  IF settings.saiba_sync_required_only /\ required_fields # {}
            THEN /\ payload = built \cap required_fields
                 /\ required_fields \subseteq built
                 /\ required_fields \subseteq payload
            ELSE payload = built

====
